---- MODULE Spec2Model ----
(***************************************************************************)
(* A model of the DaVinci Resolve automation tool: the version-safe API    *)
(* helper (api_helper.py), the controller (backend.py), the simulated      *)
(* workers (workers.py) and the worker wiring of the main window (ui.py).  *)
(*                                                                         *)
(* The host application is the environment.  A host call has one of three  *)
(* outcomes: "ok" (a truthy result), "none" (None / False) or "raise".     *)
(* Every operation takes the set F of host calls that do not go well       *)
(* during that operation: <<m, k, o>> in F says that the k-th call of the  *)
(* host method m has outcome o.                                            *)
(***************************************************************************)
EXTENDS Integers, Sequences, FiniteSets, TLC

\* ------------------------------------------------------------------------
\* Bounds of the model
\* ------------------------------------------------------------------------
MaxClips == 2        \* distinct media pool items
MaxTrack == 3        \* items on video track 1
MaxNew == 2          \* tuples in one new_clips list
MaxFaults == 1       \* host calls that fail during one operation
MaxPaths == 2        \* paths in one file_paths list

\* ------------------------------------------------------------------------
\* Small helpers
\* ------------------------------------------------------------------------
None == "None"

Clips == 1..MaxClips

RECURSIVE SubsetsUpTo(_, _)
SubsetsUpTo(U, n) ==
    IF n = 0 THEN {{}}
    ELSE LET P == SubsetsUpTo(U, n - 1) IN P \cup {S \cup {x} : S \in P, x \in U}

\* The sets of at most MaxFaults failing host calls among the calls U.
FaultSets(U) == SubsetsUpTo(U, MaxFaults)

\* The failures of one of the calls 1..n of host method m, or of all its
\* calls (0), with the outcomes os.
Fails(m, n, os) ==
    {<<m, k, o>> : k \in (IF n = 0 THEN {} ELSE IF n = 1 THEN {1} ELSE 0..n), o \in os}

Min(a, b) == IF a < b THEN a ELSE b

\* The outcome of the k-th call of host method m; a failure numbered 0 is
\* a failure of every call of the method.
Out(F, m, k) ==
    IF <<m, k, "raise">> \in F \/ <<m, 0, "raise">> \in F THEN "raise"
    ELSE IF <<m, k, "none">> \in F \/ <<m, 0, "none">> \in F THEN "none"
    ELSE "ok"

SeqsUpTo(S, n) == UNION {[1..k -> S] : k \in 0..n}

\* ------------------------------------------------------------------------
\* api_helper.py
\* ------------------------------------------------------------------------
TimelineMethods ==
    {"timeline.AddTransition", "timeline.RemoveItem", "timeline.GetItemListInTrack",
     "timeline.InsertFusionTitleIntoTimeline", "timeline.InsertFusionGeneratorIntoTimeline",
     "timeline.CreateSubtitlesFromAudio"}

MediaPoolMethods ==
    {"mediaPool.DuplicateMediaPoolItem", "mediaPool.AppendToTimeline", "mediaPool.TranscribeAudio"}

Methods == TimelineMethods \cup MediaPoolMethods

\* Methods of the host objects that the controller calls without probing;
\* every host version exposes them.
CoreMethods == {"timeline.GetItemListInTrack", "mediaPool.AppendToTimeline"}

\* Methods whose presence depends on the host version and that the
\* controller calls only after probing.
OptionalMethods ==
    {"timeline.AddTransition", "timeline.RemoveItem", "mediaPool.DuplicateMediaPoolItem"}

HostVersions == {CoreMethods \cup S : S \in SUBSET OptionalMethods}

NoMethods == [m \in {} |-> FALSE]

VARIABLES
    hostProject,        \* the host has a current project
    hostTimeline,       \* the host project has a current timeline
    hostExposes,        \* the probed method names the host objects expose
    track,              \* the items of video track 1 of the current timeline
    ctl,                \* "unbuilt", "built" or "raised" (constructor outcome)
    available_methods,  \* ResolveAPIHelper.available_methods
    dvr,                \* backend.dvr: "module", or None when the loader failed
    lastOp,             \* the last operation: its inputs, result and host calls
    barVisible,         \* progress_bar is shown
    barValue,           \* progress_bar.value()
    dialog,             \* the title of the last message box shown, or None
    wks,                \* the worker objects created so far, with their threads
    queue,              \* the signal emissions not yet delivered, oldest first
    imported_items,     \* DroneVideoEditor.imported_items
    preview_widgets,    \* DroneVideoEditor.preview_widgets (the clip of each)
    settings,           \* DroneVideoEditor.settings
    files,              \* the project files on disk: their name and content
    clip_count,         \* DroneVideoEditor.clip_count
    widgets,            \* the VideoPreviewWidget objects not yet deleted, by identity
    last_msg,           \* NoDuplicateFilter.last_msg of the root logger's filter
    decided,            \* the records the filter decided on, in order, with the verdict
    filtering,          \* per thread: the record its filter call is deciding on
    crashed             \* the process was aborted by the Qt runtime

\* Python values, by their type: str, bool, int, list and dict (a function
\* from the keys to the values).
PyStr(s) == [t |-> "str", str |-> s]

PyBool(b) == [t |-> "bool", bool |-> b]

PyInt(n) == [t |-> "int", int |-> n]

PyList(seq) == [t |-> "list", list |-> seq]

PyDict(d) == [t |-> "dict", dict |-> d]

\* config.DEFAULT_SETTINGS, the settings the window is created with.
DEFAULT_SETTINGS ==
    PyDict([ai_processing_level |-> PyStr("Medium"),
            lut_selection |-> PyStr("Default"),
            export_resolution |-> PyStr("1080p"),
            export_format |-> PyStr("MP4"),
            auto_volume |-> PyBool(FALSE),
            noise_gate_eq |-> PyBool(FALSE),
            music_selection |-> PyStr("None")])

\* The threads that log: the GUI thread and the threads of two scene
\* detection workers.
LogThreads == {"gui", "scene1", "scene2"}

\* No thread is inside NoDuplicateFilter.filter.
NotFiltering == [t \in LogThreads |-> [msg |-> None, pc |-> "out"]]

backendVars ==
    <<hostProject, hostTimeline, hostExposes, track, ctl, available_methods, dvr, lastOp>>

barVars == <<barVisible, barValue, dialog>>

clipVars == <<clip_count, widgets>>

logVars == <<last_msg, decided, filtering>>

workerVars ==
    <<wks, queue, imported_items, preview_widgets, settings, files, crashed, clipVars, logVars>>

vars == <<backendVars, barVars, workerVars>>

NoOp == [op |-> "none", arg |-> <<>>, ret |-> None, raised |-> FALSE, calls |-> <<>>]

Op(name, arg, ret, raised, calls) ==
    [op |-> name, arg |-> arg, ret |-> ret, raised |-> raised, calls |-> calls]

\* The k-th call of host method m with arguments a, and its outcome.
Call(F, m, k, a) == <<m, k, a, Out(F, m, k)>>

\* ResolveAPIHelper._detect_available_methods: the probe of the current
\* project, timeline and media pool at construction time.
DetectAvailableMethods(F, proj, tl, exposes) ==
    IF Out(F, "GetProjectManager", 1) # "ok" THEN NoMethods
    ELSE IF Out(F, "GetCurrentProject", 1) = "raise" THEN NoMethods
    ELSE LET project == proj /\ Out(F, "GetCurrentProject", 1) = "ok" IN
         IF project /\ Out(F, "GetCurrentTimeline", 1) = "raise" THEN NoMethods
         ELSE IF project /\ Out(F, "GetMediaPool", 1) = "raise" THEN NoMethods
         ELSE LET timeline == project /\ tl /\ Out(F, "GetCurrentTimeline", 1) = "ok"
                  media_pool == project /\ Out(F, "GetMediaPool", 1) = "ok"
                  D == (IF timeline THEN TimelineMethods ELSE {})
                       \cup (IF media_pool THEN MediaPoolMethods ELSE {})
              IN [m \in D |-> m \in exposes]

\* ResolveAPIHelper.is_method_available
is_method_available(am, method_name) ==
    IF method_name \in DOMAIN am THEN am[method_name] ELSE FALSE

R(ret, raised, calls) == [ret |-> ret, raised |-> raised, calls |-> calls]

\* Whether the object passed as `timeline` has the attribute of method m:
\* the host timeline has it when the host version exposes it, None has not.
HasAttr(tlArg, exposes, m) == tlArg = "timeline" /\ m \in exposes

\* ResolveAPIHelper.safe_add_transition; k numbers the call for the host.
safe_add_transition_unprobed(am, exposes, F, tlArg, k, clip1, clip2) ==
    IF ~HasAttr(tlArg, exposes, "timeline.AddTransition")
    THEN R("False", FALSE, <<>>)
    ELSE LET c == <<Call(F, "AddTransition", k, <<"Cross Dissolve", clip1, clip2, 30>>)>>
             o == Out(F, "AddTransition", k)
         IN R(IF o = "ok" THEN "True" ELSE IF o = "none" THEN None ELSE "False", FALSE, c)

safe_add_transition(am, exposes, F, tlArg, k, clip1, clip2) ==
    IF is_method_available(am, "timeline.AddTransition")
    THEN IF ~HasAttr(tlArg, exposes, "timeline.AddTransition")
         THEN R("False", FALSE, <<>>)      \* AttributeError, caught
         ELSE LET c == <<Call(F, "AddTransition", k, <<"Cross Dissolve", clip1, clip2, 30>>)>>
                  o == Out(F, "AddTransition", k)
              IN R(IF o = "ok" THEN "True" ELSE IF o = "none" THEN None ELSE "False",
                   FALSE, c)
    ELSE R("False", FALSE, <<>>)

\* ResolveAPIHelper.safe_remove_timeline_item
safe_remove_timeline_item_unguarded(am, exposes, F, tlArg, k, item) ==
    IF is_method_available(am, "timeline.RemoveItem")
    THEN IF ~HasAttr(tlArg, exposes, "timeline.RemoveItem")
         THEN R(None, TRUE, <<>>)
         ELSE LET c == <<Call(F, "RemoveItem", k, <<item>>)>>
                  o == Out(F, "RemoveItem", k)
              IN IF o = "raise" THEN R(None, TRUE, c)
                 ELSE R(IF o = "ok" THEN "True" ELSE None, FALSE, c)
    ELSE R("False", FALSE, <<>>)

safe_remove_timeline_item(am, exposes, F, tlArg, k, item) ==
    IF is_method_available(am, "timeline.RemoveItem")
    THEN IF ~HasAttr(tlArg, exposes, "timeline.RemoveItem")
         THEN R("False", FALSE, <<>>)      \* AttributeError, caught
         ELSE LET c == <<Call(F, "RemoveItem", k, <<item>>)>>
                  o == Out(F, "RemoveItem", k)
              IN R(IF o = "ok" THEN "True" ELSE IF o = "none" THEN None ELSE "False",
                   FALSE, c)
    ELSE R("False", FALSE, <<>>)

\* ------------------------------------------------------------------------
\* backend.py: ResolveController
\* ------------------------------------------------------------------------
Retries == 3

\* The connection loop of __init__: conn[k] is the outcome of the k-th
\* scriptapp("Resolve") call; the result is the attempt that connected, or
\* 0, and the number of scriptapp calls made.
RECURSIVE ConnectLoop(_, _, _)
ConnectLoopNoBreak(module, conn, attempt) ==
    IF module = None THEN [at |-> 0, n |-> 0]
    ELSE [at |-> IF conn[Retries] = "ok" THEN Retries ELSE 0, n |-> Retries]

ConnectLoop(module, conn, attempt) ==
    IF ~(attempt < Retries) THEN [at |-> 0, n |-> IF module = None THEN 0 ELSE attempt]
    ELSE IF module # None /\ conn[attempt + 1] = "ok"
         THEN [at |-> attempt + 1, n |-> attempt + 1]
         ELSE ConnectLoop(module, conn, attempt + 1)

ScriptappCalls(conn, n) == [k \in 1..n |-> <<"scriptapp", k, <<"Resolve">>, conn[k]>>]

\* The host failures during construction.  A None from GetCurrentProject or
\* GetCurrentTimeline is the host without a current project or timeline.
ConstructFaults ==
    FaultSets(Fails("GetProjectManager", 2, {"raise"})
              \cup Fails("GetCurrentProject", 2, {"raise"})
              \cup Fails("GetCurrentTimeline", 1, {"raise"})
              \cup Fails("GetMediaPool", 2, {"raise"})
              \cup Fails("CreateProject", 1, {"none", "raise"}))

\* The host calls of lines 48-56 of ResolveController.__init__, up to the
\* first one that raises.
SetupCalls(F, hasProject) ==
    LET pm == <<Call(F, "GetProjectManager", 2, <<>>)>>
        cur == <<Call(F, "GetCurrentProject", 2, <<>>)>>
        cre == <<Call(F, "CreateProject", 1, <<"Drone Edit Project">>)>>
        mp == <<Call(F, "GetMediaPool", 2, <<>>)>>
    IN IF Out(F, "GetProjectManager", 2) # "ok" THEN pm
       ELSE IF Out(F, "GetCurrentProject", 2) = "raise" THEN pm \o cur
       ELSE IF hasProject THEN pm \o cur \o mp
       ELSE IF Out(F, "CreateProject", 1) # "ok" THEN pm \o cur \o cre
       ELSE pm \o cur \o cre \o mp

\* ResolveController.__init__; conn[k] is the outcome of the k-th scriptapp
\* call and F the host failures of the other calls.
Construct ==
    /\ ctl = "unbuilt"
    /\ dvr # "unloaded"
    /\ \E conn \in [1..Retries -> {"ok", "none", "raise"}], F \in ConstructFaults :
       LET c == ConnectLoop(dvr, conn, 0)
           calls == ScriptappCalls(conn, c.n)
           am == IF c.at > 0
                 THEN DetectAvailableMethods(F, hostProject, hostTimeline, hostExposes)
                 ELSE NoMethods
           hasProject == hostProject /\ Out(F, "GetCurrentProject", 2) = "ok"
           setupRaises ==
               \/ Out(F, "GetProjectManager", 2) # "ok"
               \/ Out(F, "GetCurrentProject", 2) = "raise"
               \/ ~hasProject /\ Out(F, "CreateProject", 1) # "ok"
               \/ Out(F, "GetMediaPool", 2) = "raise"
           creates ==
               /\ c.at > 0
               /\ Out(F, "GetProjectManager", 2) = "ok"
               /\ Out(F, "GetCurrentProject", 2) # "raise"
               /\ ~hasProject
               /\ Out(F, "CreateProject", 1) = "ok"
           raised == c.at = 0 \/ setupRaises
       IN /\ available_methods' = am
          /\ ctl' = IF raised THEN "raised" ELSE "built"
          /\ hostProject' = (hostProject \/ creates)
          /\ hostTimeline' = (hostTimeline /\ ~creates)
          /\ track' = IF creates THEN <<>> ELSE track
          /\ lastOp' = Op("__init__", <<conn>>, None, raised,
                          IF c.at > 0 THEN calls \o SetupCalls(F, hasProject) ELSE calls)
    /\ UNCHANGED <<hostExposes, dvr, barVars, workerVars>>

\* A media pool item; DuplicateMediaPoolItem returns a duplicate of its
\* source.  The track holds the clip of each of its timeline items.
Item(c, d) == [clip |-> c, dup |-> d]

Items == {Item(c, FALSE) : c \in Clips}

ClipsOf(items) == [k \in 1..Len(items) |-> items[k].clip]

\* ResolveController.get_current_timeline; k numbers the host call.
get_current_timeline(tl, F, k) ==
    R(IF Out(F, "GetCurrentTimeline", k) = "ok" /\ tl THEN "timeline" ELSE None,
      FALSE, <<Call(F, "GetCurrentTimeline", k, <<>>)>>)

\* The loop `for clip in timeline.GetItemsInTrack("video", 1): clip.ApplyLUT`
\* of apply_lut and auto_apply_color_and_transitions: the call that yields
\* the clips is outside the try, each ApplyLUT is inside one.
ApplyLUTLoop(items, F) ==
    LET c == <<Call(F, "GetItemsInTrack", 1, <<"video", 1>>)>> IN
    IF Out(F, "GetItemsInTrack", 1) # "ok"
    THEN R(None, TRUE, c)
    ELSE R(None, FALSE, c \o [k \in 1..Len(items) |-> Call(F, "ApplyLUT", k, <<items[k]>>)])

\* The transition loop of auto_apply_color_and_transitions, from pair i on.
RECURSIVE TransitionLoop(_, _, _, _, _)
TransitionLoopStopsAtFailure(am, exposes, F, items, i) ==
    IF i > Len(items) - 1 THEN R(None, FALSE, <<>>)
    ELSE LET r == safe_add_transition(am, exposes, F, "timeline", i, items[i], items[i + 1])
         IN IF r.raised THEN R(None, TRUE, r.calls)
            ELSE IF r.ret # "True" THEN R(None, FALSE, r.calls)
            ELSE LET rest == TransitionLoop(am, exposes, F, items, i + 1)
                 IN R(None, rest.raised, r.calls \o rest.calls)

TransitionLoop(am, exposes, F, items, i) ==
    IF i > Len(items) - 1 THEN R(None, FALSE, <<>>)
    ELSE LET r == safe_add_transition(am, exposes, F, "timeline", i, items[i], items[i + 1])
         IN IF r.raised THEN R(None, TRUE, r.calls)
            ELSE LET rest == TransitionLoop(am, exposes, F, items, i + 1)
                 IN R(None, rest.raised, r.calls \o rest.calls)

\* ResolveController.auto_apply_color_and_transitions on a timeline whose
\* video track 1 holds items; lutExists is os.path.exists(lut_path); g numbers
\* the GetItemListInTrack call.
auto_apply_color_and_transitions(am, exposes, F, lutExists, items, g) ==
    LET lut == IF lutExists THEN ApplyLUTLoop(items, F) ELSE R(None, FALSE, <<>>) IN
    IF lut.raised THEN lut
    ELSE IF is_method_available(am, "timeline.AddTransition")
         THEN LET c == lut.calls \o <<Call(F, "GetItemListInTrack", g, <<"video", 1>>)>> IN
              IF Out(F, "GetItemListInTrack", g) # "ok"
              THEN R(None, TRUE, c)
              ELSE LET t == TransitionLoop(am, exposes, F, items, 1)
                   IN R(None, t.raised, c \o t.calls)
         ELSE lut

\* ResolveController.create_timeline; `created` says whether the host
\* created the timeline.
create_timeline(am, exposes, F, lutExists, clips) ==
    IF clips = <<>> THEN [ret |-> None, raised |-> FALSE, calls |-> <<>>, created |-> FALSE]
    ELSE LET c == <<Call(F, "CreateTimelineFromClips", 1, <<"Auto Timeline", clips>>)>> IN
         IF Out(F, "CreateTimelineFromClips", 1) # "ok"
         THEN [ret |-> None, raised |-> FALSE, calls |-> c, created |-> FALSE]
         ELSE LET a == auto_apply_color_and_transitions(am, exposes, F, lutExists, ClipsOf(clips), 1)
              IN [ret |-> IF a.raised THEN None ELSE "timeline", raised |-> FALSE,
                  calls |-> c \o a.calls, created |-> TRUE]

\* ResolveController.apply_lut
apply_lut(tl, items, F) ==
    LET t == get_current_timeline(tl, F, 1) IN
    IF t.ret = None THEN t
    ELSE LET l == ApplyLUTLoop(items, F) IN R(None, l.raised, t.calls \o l.calls)

\* The property loop of get_clip_name, from property p on; b is the number
\* of GetClipProperty calls made before this clip.
ClipProps == <<"File Path", "Clip Name", "Name">>

RECURSIVE ClipPropLoop(_, _, _, _)
ClipPropLoop(item, F, b, p) ==
    IF p > Len(ClipProps) THEN R(None, FALSE, <<>>)
    ELSE LET c == <<Call(F, "GetClipProperty", b + p, <<item, ClipProps[p]>>)>> IN
         IF Out(F, "GetClipProperty", b + p) = "ok" THEN R("name", FALSE, c)
         ELSE LET rest == ClipPropLoop(item, F, b, p + 1)
              IN R(rest.ret, FALSE, c \o rest.calls)

\* ResolveController.get_clip_name of an item of kind "None", "invalid" (an
\* object without GetClipProperty) or "item"; n numbers the clip.
ItemKinds == {"None", "invalid", "item"}

get_clip_name(kind, item, F, n) ==
    IF kind # "item" THEN R("Unknown", FALSE, <<>>)
    ELSE LET l == ClipPropLoop(item, F, Len(ClipProps) * (n - 1), 1) IN
         IF l.ret # None THEN l
         ELSE R(IF Out(F, "GetName", n) = "ok" THEN "name" ELSE "Unknown", FALSE,
                l.calls \o <<Call(F, "GetName", n, <<item>>)>>)

\* ResolveController.fusion_automation
fusion_automation(tl, F) ==
    LET t == get_current_timeline(tl, F, 1) IN
    R(IF t.ret = None THEN "False" ELSE "True", FALSE, t.calls)

\* The paths of file_paths that exist on disk.
RECURSIVE ValidPaths(_)
AllPaths(file_paths) == [k \in 1..Len(file_paths) |-> file_paths[k].path]

ValidPaths(file_paths) ==
    IF file_paths = <<>> THEN <<>>
    ELSE (IF Head(file_paths).exists THEN <<Head(file_paths).path>> ELSE <<>>)
         \o ValidPaths(Tail(file_paths))

\* ResolveController.import_media
import_media(file_paths, F) ==
    LET valid_paths == ValidPaths(file_paths) IN
    IF valid_paths = <<>> THEN R(None, FALSE, <<>>)
    ELSE R(IF Out(F, "ImportMedia", 1) = "ok" THEN "items" ELSE None,
           FALSE, <<Call(F, "ImportMedia", 1, <<valid_paths>>)>>)

\* The removal loop of update_timeline_with_trimmed_clips over all_clips,
\* from item k on; `gone` is the set of positions the host removed.
RECURSIVE RemoveLoop(_, _, _, _, _)
RemoveLoop(am, exposes, F, all_clips, k) ==
    IF k > Len(all_clips) THEN [calls |-> <<>>, gone |-> {}]
    ELSE LET r == safe_remove_timeline_item(am, exposes, F, "timeline", k, all_clips[k])
             rest == RemoveLoop(am, exposes, F, all_clips, k + 1)
         IN [calls |-> r.calls \o rest.calls,
             gone |-> (IF r.calls # <<>> /\ r.ret = "True" THEN {k} ELSE {}) \cup rest.gone]

RECURSIVE Keep(_, _, _)
Keep(s, gone, k) ==
    IF k > Len(s) THEN <<>>
    ELSE (IF k \in gone THEN <<>> ELSE <<s[k]>>) \o Keep(s, gone, k + 1)

\* ResolveController.seconds_to_timecode for whole seconds: the fields
\* <<h, m, s, f>> of the text "hh:mm:ss:ff".
fps == 30

seconds_to_timecode(seconds) ==
    LET frames == seconds * fps
        h == frames \div (fps * 3600)
        frames1 == frames % (fps * 3600)
        m == frames1 \div (fps * 60)
        frames2 == frames1 % (fps * 60)
    IN <<h, m, frames2 \div fps, frames2 % fps>>

\* The append loop of update_timeline_with_trimmed_clips, from tuple j on;
\* `added` is what the host appended to the track.
RECURSIVE AppendLoopStopsAtFailure(_, _, _, _)
RECURSIVE AppendLoop(_, _, _, _)
AppendLoopStopsAtFailure(am, F, new_clips, j) ==
    IF j > Len(new_clips) THEN [calls |-> <<>>, added |-> <<>>]
    ELSE LET source_clip == new_clips[j][1]
             name == get_clip_name("item", source_clip, F, j)
             has_duplicate_method == is_method_available(am, "mediaPool.DuplicateMediaPoolItem")
             dupCalls == IF has_duplicate_method
                         THEN <<Call(F, "DuplicateMediaPoolItem", j, <<source_clip>>)>>
                         ELSE <<>>
             final_clip == IF has_duplicate_method /\ Out(F, "DuplicateMediaPoolItem", j) = "ok"
                           THEN Item(source_clip.clip, TRUE)
                           ELSE source_clip
             rest == IF Out(F, "AppendToTimeline", j) = "raise"
                     THEN [calls |-> <<>>, added |-> <<>>]
                     ELSE AppendLoop(am, F, new_clips, j + 1)
         IN [calls |-> name.calls \o dupCalls
                       \o <<Call(F, "AppendToTimeline", j, <<final_clip>>)>> \o rest.calls,
             added |-> (IF Out(F, "AppendToTimeline", j) = "ok" THEN <<final_clip.clip>> ELSE <<>>)
                       \o rest.added]

AppendLoop(am, F, new_clips, j) ==
    IF j > Len(new_clips) THEN [calls |-> <<>>, added |-> <<>>]
    ELSE LET source_clip == new_clips[j][1]
             name == get_clip_name("item", source_clip, F, j)
             has_duplicate_method == is_method_available(am, "mediaPool.DuplicateMediaPoolItem")
             dupCalls == IF has_duplicate_method
                         THEN <<Call(F, "DuplicateMediaPoolItem", j, <<source_clip>>)>>
                         ELSE <<>>
             final_clip == IF has_duplicate_method /\ Out(F, "DuplicateMediaPoolItem", j) = "ok"
                           THEN Item(source_clip.clip, TRUE)
                           ELSE source_clip
             rest == AppendLoop(am, F, new_clips, j + 1)
         IN [calls |-> name.calls \o dupCalls
                       \o <<Call(F, "AppendToTimeline", j, <<final_clip>>)>> \o rest.calls,
             added |-> (IF Out(F, "AppendToTimeline", j) = "ok" THEN <<final_clip.clip>> ELSE <<>>)
                       \o rest.added]

\* ResolveController.update_timeline_with_trimmed_clips; `track` is video
\* track 1 of the current timeline afterwards.
update_timeline_with_trimmed_clips(am, exposes, tl, items, F, lutExists, new_clips) ==
    LET U(ret, calls, tr) == [ret |-> ret, raised |-> FALSE, calls |-> calls, track |-> tr] IN
    IF new_clips = <<>> THEN U("False", <<>>, items)
    ELSE LET t == get_current_timeline(tl, F, 1) IN
    IF t.ret = None THEN U("False", t.calls, items)
    ELSE LET c1 == t.calls \o <<Call(F, "GetItemListInTrack", 1, <<"video", 1>>)>>
             o == Out(F, "GetItemListInTrack", 1)
             removes == is_method_available(am, "timeline.RemoveItem")
         IN
    IF o = "raise" \/ (o = "none" /\ removes) THEN U("False", c1, items)
    ELSE LET rm == IF removes THEN RemoveLoop(am, exposes, F, items, 1)
                   ELSE [calls |-> <<>>, gone |-> {}]
             ap == AppendLoop(am, F, new_clips, 1)
             tr == Keep(items, rm.gone, 1) \o ap.added
             a == auto_apply_color_and_transitions(am, exposes, F, lutExists, tr, 2)
         IN U(IF a.raised THEN "False" ELSE "True", c1 \o rm.calls \o ap.calls \o a.calls, tr)

\* ------------------------------------------------------------------------
\* The operations of a constructed controller
\* ------------------------------------------------------------------------
hostFrame == <<hostProject, hostTimeline, hostExposes, ctl, available_methods, dvr>>

BothOutcomes == {"none", "raise"}

\* The controller is constructed and the event loop is idle.
Ready == ctl = "built" /\ lastOp = NoOp

\* The widget objects left when the deferred deletions (deleteLater) are
\* delivered.
Remaining(ws) == [id \in {i \in DOMAIN ws : ~ws[i].deleteLater} |-> ws[id]]

\* The handler returns to the event loop (main.py, app.exec()), which
\* delivers the deferred deletions.
Return ==
    /\ lastOp # NoOp
    /\ lastOp' = NoOp
    /\ widgets' = Remaining(widgets)
    /\ UNCHANGED <<hostProject, hostTimeline, hostExposes, track, ctl, available_methods, dvr,
                   barVars, wks, queue, imported_items, preview_widgets, settings, files,
                   crashed, clip_count, logVars>>

\* A direct call of ResolveAPIHelper.safe_add_transition, on the current
\* timeline of the host or on None.
SafeAddTransition ==
    /\ Ready
    /\ \E F \in FaultSets(Fails("AddTransition", 1, BothOutcomes)),
          tlArg \in {None} \cup (IF hostTimeline THEN {"timeline"} ELSE {}),
          clip1, clip2 \in Clips :
       LET r == safe_add_transition(available_methods, hostExposes, F, tlArg, 1, clip1, clip2)
       IN lastOp' = Op("safe_add_transition", <<tlArg, clip1, clip2>>,
                       r.ret, r.raised, r.calls)
    /\ UNCHANGED <<hostProject, hostTimeline, hostExposes, track, ctl, available_methods, dvr,
                   barVars, workerVars>>

\* A direct call of ResolveAPIHelper.safe_remove_timeline_item.
SafeRemoveTimelineItem ==
    /\ Ready
    /\ \E F \in FaultSets(Fails("RemoveItem", 1, BothOutcomes)),
          tlArg \in {None} \cup (IF hostTimeline THEN {"timeline"} ELSE {}),
          k \in 1..Len(track) :
       LET r == safe_remove_timeline_item(available_methods, hostExposes, F, tlArg, 1, track[k])
           removed == r.calls # <<>> /\ r.ret = "True"
       IN /\ lastOp' = Op("safe_remove_timeline_item", <<tlArg, track[k]>>,
                          r.ret, r.raised, r.calls)
          /\ track' = IF removed
                      THEN SubSeq(track, 1, k - 1) \o SubSeq(track, k + 1, Len(track))
                      ELSE track
    /\ UNCHANGED <<hostProject, hostTimeline, hostExposes, ctl, available_methods, dvr, barVars, workerVars>>

\* The new_clips tuples (source_clip, start_sec, end_sec) of the model.
NewClipTuples == {<<Item(1, FALSE), 0, 2>>, <<Item(2, FALSE), 2, 5>>}

FilePaths == {[path |-> c, exists |-> e] : c \in Clips, e \in BOOLEAN}

\* The lists of paths handed to import_media: a path names one file, which
\* exists or not.
PathLists ==
    {l \in SeqsUpTo(FilePaths, MaxPaths) :
        \A i, j \in DOMAIN l : l[i].path = l[j].path => l[i].exists = l[j].exists}

InitTracks == {<<>>, <<1>>, <<1, 2>>}

\* The host failures during auto_apply_color_and_transitions on a track
\* of n items, whose GetItemListInTrack call is the g-th of the operation.
ColorPassFaults(lutExists, n, g) ==
    (IF lutExists
     THEN Fails("GetItemsInTrack", 1, BothOutcomes) \cup Fails("ApplyLUT", n, {"raise"})
     ELSE {})
    \cup (IF is_method_available(available_methods, "timeline.AddTransition")
          THEN Fails("GetItemListInTrack", g, BothOutcomes)
               \cup Fails("AddTransition", n - 1, BothOutcomes)
          ELSE Fails("GetItemListInTrack", g - 1, BothOutcomes))

\* The host failures during create_timeline(clips).
CreateTimelineFaults(clips, lutExists) ==
    FaultSets(IF clips = <<>> THEN {}
              ELSE Fails("CreateTimelineFromClips", 1, BothOutcomes)
                   \cup ColorPassFaults(lutExists, Len(clips), 1))

\* The host failures during update_timeline_with_trimmed_clips(new_clips).
UpdateTimelineFailures(new_clips, lutExists) ==
    IF new_clips = <<>> THEN {}
    ELSE Fails("GetCurrentTimeline", 1, {"raise"})
         \cup (IF ~hostTimeline THEN {}
               ELSE (IF is_method_available(available_methods, "timeline.RemoveItem")
                     THEN Fails("RemoveItem", Len(track), BothOutcomes) ELSE {})
                    \cup (IF is_method_available(available_methods,
                                                 "mediaPool.DuplicateMediaPoolItem")
                          THEN Fails("DuplicateMediaPoolItem", Len(new_clips), BothOutcomes)
                          ELSE {})
                    \cup Fails("AppendToTimeline", Len(new_clips), BothOutcomes)
                    \cup ColorPassFaults(lutExists,
                                         Min(MaxTrack, Len(track) + Len(new_clips)), 2))

UpdateTimelineFaults(new_clips, lutExists) ==
    FaultSets(UpdateTimelineFailures(new_clips, lutExists))

\* backend.create_timeline(clips), for one of the given lists of clips.
CreateTimelineOf(clipLists) ==
    /\ Ready
    /\ \E clips \in clipLists, lutExists \in BOOLEAN :
       \E F \in CreateTimelineFaults(clips, lutExists) :
       LET r == create_timeline(available_methods, hostExposes, F, lutExists, clips)
       IN /\ lastOp' = Op("create_timeline", <<clips>>, r.ret, r.raised, r.calls)
          /\ hostTimeline' = (hostTimeline \/ r.created)
          /\ track' = IF r.created THEN ClipsOf(clips) ELSE track
    /\ UNCHANGED <<hostProject, hostExposes, ctl, available_methods, dvr, barVars, workerVars>>

CreateTimeline == CreateTimelineOf(SeqsUpTo(Items, MaxTrack))

\* The lists of 0..MaxTrack clips that take the media pool items in turn.
ClipsInTurn == {[k \in 1..n |-> Item(((k - 1) % MaxClips) + 1, FALSE)] : n \in 0..MaxTrack}

CreateTimelineInTurn == CreateTimelineOf(ClipsInTurn)

\* backend.get_current_timeline()
GetCurrentTimeline ==
    /\ Ready
    /\ \E F \in FaultSets(Fails("GetCurrentTimeline", 1, {"raise"})) :
       LET r == get_current_timeline(hostTimeline, F, 1)
       IN lastOp' = Op("get_current_timeline", <<>>, r.ret, r.raised, r.calls)
    /\ UNCHANGED <<hostFrame, track, barVars, workerVars>>

\* backend.apply_lut(lut_path)
ApplyLut ==
    /\ Ready
    /\ \E F \in FaultSets(Fails("GetCurrentTimeline", 1, {"raise"})
                          \cup Fails("GetItemsInTrack", 1, BothOutcomes)
                          \cup Fails("ApplyLUT", Len(track), {"raise"})) :
       LET r == apply_lut(hostTimeline, track, F)
       IN lastOp' = Op("apply_lut", <<>>, r.ret, r.raised, r.calls)
    /\ UNCHANGED <<hostFrame, track, barVars, workerVars>>

\* backend.get_clip_name(clip_item)
GetClipName ==
    /\ Ready
    /\ \E kind \in ItemKinds, item \in Items,
          F \in FaultSets(Fails("GetClipProperty", Len(ClipProps), BothOutcomes)
                          \cup Fails("GetName", 1, BothOutcomes)) :
       LET r == get_clip_name(kind, item, F, 1)
       IN lastOp' = Op("get_clip_name", <<kind, item>>, r.ret, r.raised, r.calls)
    /\ UNCHANGED <<hostFrame, track, barVars, workerVars>>

\* backend.fusion_automation()
FusionAutomation ==
    /\ Ready
    /\ \E F \in FaultSets(Fails("GetCurrentTimeline", 1, {"raise"})) :
       LET r == fusion_automation(hostTimeline, F)
       IN lastOp' = Op("fusion_automation", <<>>, r.ret, r.raised, r.calls)
    /\ UNCHANGED <<hostFrame, track, barVars, workerVars>>

\* backend.import_media(file_paths)
ImportMedia ==
    /\ Ready
    /\ \E file_paths \in PathLists, F \in FaultSets(Fails("ImportMedia", 1, BothOutcomes)) :
       LET r == import_media(file_paths, F)
       IN lastOp' = Op("import_media", <<file_paths>>, r.ret, r.raised, r.calls)
    /\ UNCHANGED <<hostFrame, track, barVars, workerVars>>

\* The call of backend.update_timeline_with_trimmed_clips on the current
\* state of the host.
UpdateTimeline(new_clips, F, lutExists) ==
    update_timeline_with_trimmed_clips(available_methods, hostExposes, hostTimeline,
                                       track, F, lutExists, new_clips)

\* DroneVideoEditor.onSceneDetectionFinished(new_clips): the only caller of
\* backend.update_timeline_with_trimmed_clips.
onSceneDetectionFinished(new_clips, F, lutExists) ==
    LET r == UpdateTimeline(new_clips, F, lutExists)
    IN /\ Len(r.track) <= MaxTrack
       /\ barVisible' = FALSE
       /\ track' = r.track
       /\ dialog' = IF r.ret = "True" /\ ~r.raised
                    THEN "Scene Detection Complete" ELSE "Timeline Error"
       /\ UNCHANGED <<hostFrame, barValue>>

\* The worker's finished signal is delivered with one of clipLists, the LUT
\* file exists or not as luts says, and the host calls that fail are among
\* those of the methods failing.
OnSceneDetectionFinishedOf(clipLists, luts, failing) ==
    /\ Ready
    /\ \E new_clips \in clipLists, lutExists \in luts :
       \E F \in FaultSets({f \in UpdateTimelineFailures(new_clips, lutExists) :
                                f[1] \in failing}) :
          LET r == UpdateTimeline(new_clips, F, lutExists)
          IN /\ onSceneDetectionFinished(new_clips, F, lutExists)
             /\ lastOp' = Op("update_timeline_with_trimmed_clips", <<new_clips>>,
                             r.ret, r.raised, r.calls)
    /\ UNCHANGED workerVars

HostMethods ==
    {"GetCurrentTimeline", "GetItemListInTrack", "GetItemsInTrack", "RemoveItem",
     "DuplicateMediaPoolItem", "AppendToTimeline", "ApplyLUT", "AddTransition",
     "GetClipProperty", "GetName"}

OnSceneDetectionFinished ==
    OnSceneDetectionFinishedOf(SeqsUpTo(NewClipTuples, MaxNew), BOOLEAN, HostMethods)

\* The lists of 0..MaxNew tuples that take the media pool items in turn.
NewClipsInTurn ==
    {[k \in 1..n |-> <<Item(((k - 1) % MaxClips) + 1, FALSE), 2 * (k - 1), 2 * k>>] :
        n \in 0..MaxNew}

\* The update when no LUT file is installed and the failures of the host
\* are those of the calls that list, clear and fill the track.
UpdateInTurn ==
    OnSceneDetectionFinishedOf(NewClipsInTurn, {FALSE},
                               {"GetCurrentTimeline", "GetItemListInTrack", "RemoveItem",
                                "AppendToTimeline"})

Init ==
    /\ hostProject \in BOOLEAN
    /\ hostTimeline \in {t \in BOOLEAN : t => hostProject}
    /\ hostExposes \in HostVersions
    /\ track \in IF hostTimeline THEN InitTracks ELSE {<<>>}
    /\ ctl = "unbuilt"
    /\ available_methods = NoMethods
    /\ dvr \in {"module", None}
    /\ lastOp = NoOp
    /\ barVisible = FALSE
    /\ barValue = 0
    /\ dialog = None
    /\ wks = <<>>
    /\ queue = <<>>
    /\ imported_items = <<>>
    /\ preview_widgets = <<>>
    /\ crashed = FALSE
    /\ settings = DEFAULT_SETTINGS
    /\ files = {}
    /\ clip_count = 0
    /\ widgets = <<>>
    /\ last_msg = None
    /\ decided = <<>>
    /\ filtering = NotFiltering

Next ==
    \/ Return
    \/ Construct
    \/ SafeAddTransition
    \/ SafeRemoveTimelineItem
    \/ CreateTimeline
    \/ GetCurrentTimeline
    \/ ApplyLut
    \/ GetClipName
    \/ FusionAutomation
    \/ ImportMedia
    \/ OnSceneDetectionFinished

Spec == Init /\ [][Next]_vars

\* The API helper on its own: construction and direct calls of its wrappers.
NextHelper ==
    \/ Return
    \/ Construct
    \/ SafeAddTransition
    \/ SafeRemoveTimelineItem

SpecHelper == Init /\ [][NextHelper]_vars

\* Construction and timeline creation.
NextTimeline ==
    \/ Return
    \/ Construct
    \/ CreateTimelineInTurn

SpecTimeline == Init /\ [][NextTimeline]_vars

\* Construction and the update of the timeline after scene detection.
NextUpdate ==
    \/ Return
    \/ UpdateInTurn

\* The controller was constructed without a failure on a host of any
\* version, with a project.
InitBuilt ==
    /\ hostProject = TRUE
    /\ hostTimeline \in BOOLEAN
    /\ hostExposes \in HostVersions
    /\ track \in IF hostTimeline THEN InitTracks ELSE {<<>>}
    /\ ctl = "built"
    /\ available_methods = DetectAvailableMethods({}, hostProject, hostTimeline, hostExposes)
    /\ dvr = "module"
    /\ lastOp = NoOp
    /\ barVisible = FALSE
    /\ barValue = 0
    /\ dialog = None
    /\ wks = <<>>
    /\ queue = <<>>
    /\ imported_items = <<>>
    /\ preview_widgets = <<>>
    /\ crashed = FALSE
    /\ settings = DEFAULT_SETTINGS
    /\ files = {}
    /\ clip_count = 0
    /\ widgets = <<>>
    /\ last_msg = None
    /\ decided = <<>>
    /\ filtering = NotFiltering

SpecUpdate == InitBuilt /\ [][NextUpdate]_vars

\* Construction and media import.
NextImport ==
    \/ Return
    \/ Construct
    \/ ImportMedia

SpecImport == Init /\ [][NextImport]_vars

\* ------------------------------------------------------------------------
\* resolve_loader.py: locating the scripting module
\* ------------------------------------------------------------------------
Systems == {"Windows", "Darwin", "Linux", "Other"}

EnvPath == "RESOLVE_SCRIPT_LIB"

\* The library paths listed for a platform.
StandardPaths(system) ==
    IF system = "Windows"
    THEN <<"win/DaVinci Resolve", "win/DaVinci Resolve Studio", "win/ProgramData">>
    ELSE IF system = "Darwin"
    THEN <<"mac/DaVinci Resolve", "mac/DaVinci Resolve Studio">>
    ELSE IF system = "Linux"
    THEN <<"linux/libs/Fusion", "linux/libs">>
    ELSE <<>>

\* get_fusion_script_paths(); env_path is whether RESOLVE_SCRIPT_LIB is set
\* to a non-empty value.
get_fusion_script_paths(system, env_path) ==
    (IF env_path THEN <<EnvPath>> ELSE <<>>) \o StandardPaths(system)

module_paths == <<"modules/win", "modules/mac", "modules/linux">>

\* The loop of load_resolve_script over fusion_paths, from path k on;
\* `exists` are the paths on disk and `loads` those load_dynamic loads.
RECURSIVE LoadCandidates(_, _, _, _)
LoadCandidatesStopAtFailure(fusion_paths, exists, loads, k) ==
    IF k > Len(fusion_paths) THEN R(None, FALSE, <<>>)
    ELSE IF fusion_paths[k] \notin exists
    THEN LoadCandidates(fusion_paths, exists, loads, k + 1)
    ELSE IF fusion_paths[k] \in loads
    THEN R("module", FALSE, <<(<<"load_dynamic", k, <<fusion_paths[k]>>, "ok">>)>>)
    ELSE R(None, FALSE, <<(<<"load_dynamic", k, <<fusion_paths[k]>>, "raise">>)>>)

LoadCandidates(fusion_paths, exists, loads, k) ==
    IF k > Len(fusion_paths) THEN R(None, FALSE, <<>>)
    ELSE IF fusion_paths[k] \notin exists
    THEN LoadCandidates(fusion_paths, exists, loads, k + 1)
    ELSE IF fusion_paths[k] \in loads
    THEN R("module", FALSE, <<(<<"load_dynamic", k, <<fusion_paths[k]>>, "ok">>)>>)
    ELSE LET rest == LoadCandidates(fusion_paths, exists, loads, k + 1)
         IN R(rest.ret, FALSE,
              <<(<<"load_dynamic", k, <<fusion_paths[k]>>, "raise">>)>> \o rest.calls)

\* load_resolve_script().  inp.direct and inp.second are the outcomes of the
\* two import statements ("error" is an exception other than ImportError),
\* inp.dirs the module directories that exist and are not yet on sys.path.
load_resolve_script(inp) ==
    LET first == <<"import", 1, <<"fusionscript">>, inp.direct>>
        Added(path) == path \in inp.dirs
        added == SelectSeq(module_paths, Added)
        appends == [k \in 1..Len(added) |-> <<"sys.path.append", k, <<added[k]>>, "ok">>]
        second == <<"import", 2, <<"fusionscript">>, inp.second>>
        c2 == <<first>> \o appends \o <<second>>
        fusion_paths == get_fusion_script_paths(inp.system, inp.env)
        dyn == LoadCandidates(fusion_paths, inp.exists, inp.loads, 1)
    IN IF inp.direct = "ok" THEN R("module", FALSE, <<first>>)
       ELSE IF inp.direct = "error" THEN R(None, TRUE, <<first>>)
       ELSE IF inp.second = "ok" THEN R("module", FALSE, c2)
       ELSE IF inp.second = "error" THEN R(None, TRUE, c2)
       ELSE R(dyn.ret, FALSE, c2 \o dyn.calls)

PathsOf(seq) == {seq[k] : k \in DOMAIN seq}

\* The environments of the model.  An input the function does not read
\* (because an earlier strategy ended it) is left at a fixed value, and the
\* second import can only differ from the first when a directory was added.
NoModule ==
    [direct |-> "ImportError", dirs |-> {}, second |-> "ImportError",
     system |-> "Other", env |-> FALSE, exists |-> {}, loads |-> {}]

LoaderInputs ==
    {[NoModule EXCEPT !.direct = d] : d \in {"ok", "error"}}
    \cup {[NoModule EXCEPT !.dirs = {module_paths[3]}, !.second = o] : o \in {"ok", "error"}}
    \cup UNION {UNION {UNION {
            {[NoModule EXCEPT !.dirs = D, !.system = sy, !.env = e, !.exists = ex, !.loads = l]
               : l \in SUBSET ex}
            : ex \in SUBSET PathsOf(get_fusion_script_paths(sy, e))}
            : D \in {{}, {module_paths[1]}}}
            : sy \in Systems, e \in BOOLEAN}

\* backend.py line 10: the module is located when backend is imported.
LoadResolveScript ==
    /\ dvr = "unloaded"
    /\ \E inp \in LoaderInputs :
       LET r == load_resolve_script(inp)
       IN /\ lastOp' = Op("load_resolve_script", <<inp>>, r.ret, r.raised, r.calls)
          /\ dvr' = r.ret
          /\ ctl' = IF r.raised THEN "raised" ELSE ctl
    /\ UNCHANGED <<hostProject, hostTimeline, hostExposes, track, available_methods,
                   barVars, workerVars>>

InitLoader ==
    /\ hostProject \in BOOLEAN
    /\ hostTimeline \in {t \in BOOLEAN : t => hostProject}
    /\ hostExposes \in HostVersions
    /\ track \in IF hostTimeline THEN InitTracks ELSE {<<>>}
    /\ ctl = "unbuilt"
    /\ available_methods = NoMethods
    /\ dvr = "unloaded"
    /\ lastOp = NoOp
    /\ barVisible = FALSE
    /\ barValue = 0
    /\ dialog = None
    /\ wks = <<>>
    /\ queue = <<>>
    /\ imported_items = <<>>
    /\ preview_widgets = <<>>
    /\ crashed = FALSE
    /\ settings = DEFAULT_SETTINGS
    /\ files = {}
    /\ clip_count = 0
    /\ widgets = <<>>
    /\ last_msg = None
    /\ decided = <<>>
    /\ filtering = NotFiltering

NextLoader ==
    \/ LoadResolveScript
    \/ Return

SpecLoader == InitLoader /\ [][NextLoader]_vars

\* ------------------------------------------------------------------------
\* Properties of the API helper and the controller
\* ------------------------------------------------------------------------
\* The positions of the calls of host method m in the last operation.
CallsOf(m) == {i \in DOMAIN lastOp.calls : lastOp.calls[i][1] = m}

Wrappers == {"safe_add_transition", "safe_remove_timeline_item"}

\* C1: timeline.AddTransition and timeline.RemoveItem are called only when
\* is_method_available reports them available; a wrapper called while its
\* method is reported unavailable makes no host call and returns False.
C1_CallOnlyWhenAvailable ==
    /\ CallsOf("AddTransition") # {}
          => is_method_available(available_methods, "timeline.AddTransition")
    /\ CallsOf("RemoveItem") # {}
          => is_method_available(available_methods, "timeline.RemoveItem")
    /\ lastOp.op = "safe_add_transition"
          /\ ~is_method_available(available_methods, "timeline.AddTransition")
          => lastOp.calls = <<>> /\ lastOp.ret = "False"
    /\ lastOp.op = "safe_remove_timeline_item"
          /\ ~is_method_available(available_methods, "timeline.RemoveItem")
          => lastOp.calls = <<>> /\ lastOp.ret = "False"

\* safe_add_transition was called on the host timeline of a version that has
\* AddTransition, but detection never recorded the method: no host call.
C1_Witness ==
    /\ lastOp.op = "safe_add_transition"
    /\ lastOp.arg[1] = "timeline"
    /\ "timeline.AddTransition" \in hostExposes
    /\ "timeline.AddTransition" \notin DOMAIN available_methods
    /\ lastOp.calls = <<>>
    /\ lastOp.ret = "False"

\* C2: whenever the timeline passed to safe_add_transition exposes a
\* callable AddTransition, the wrapper calls it, whatever the state the
\* helper was constructed in; so create_timeline on two or more clips, all
\* of whose host calls go well, attempts a transition.
C2_CallsWheneverExposed ==
    /\ lastOp.op = "safe_add_transition"
          /\ HasAttr(lastOp.arg[1], hostExposes, "timeline.AddTransition")
          => CallsOf("AddTransition") # {}
    /\ lastOp.op = "create_timeline"
          /\ Len(lastOp.arg[1]) >= 2
          /\ "timeline.AddTransition" \in hostExposes
          /\ lastOp.calls # <<>>
          /\ (\A i \in DOMAIN lastOp.calls : lastOp.calls[i][4] = "ok")
          => CallsOf("AddTransition") # {}

PublicOps ==
    {"import_media", "create_timeline", "get_current_timeline", "apply_lut",
     "update_timeline_with_trimmed_clips", "get_clip_name", "fusion_automation"}

\* C3: no public controller operation lets an exception of a host call
\* escape to its caller.
C3_NoExceptionEscapes ==
    lastOp.op \in PublicOps => ~lastOp.raised

\* C4: the wrappers never raise; when the method is recorded as available
\* and the host call throws, or the timeline passed in lacks the attribute,
\* the wrapper returns False.
C4_WrappersNeverRaise ==
    /\ lastOp.op \in Wrappers => ~lastOp.raised
    /\ lastOp.op \in Wrappers
          /\ (\E i \in DOMAIN lastOp.calls : lastOp.calls[i][4] = "raise")
          => lastOp.ret = "False"
    /\ lastOp.op \in Wrappers /\ lastOp.arg[1] = None => lastOp.ret = "False"

\* AddTransition was recorded as available, was called and threw.
C4_Witness ==
    /\ lastOp.op = "safe_add_transition"
    /\ is_method_available(available_methods, "timeline.AddTransition")
    /\ lastOp.calls # <<>>
    /\ lastOp.calls[1][4] = "raise"
    /\ lastOp.ret = "False"
    /\ ~lastOp.raised

\* C5: when every AppendToTimeline call of the timeline update raises, the
\* update returns False and the 'Timeline Error' dialog is shown.
C5_AppendFailureShowsError ==
    lastOp.op = "update_timeline_with_trimmed_clips"
        /\ CallsOf("AppendToTimeline") # {}
        /\ (\A i \in CallsOf("AppendToTimeline") : lastOp.calls[i][4] = "raise")
        => lastOp.ret = "False" /\ dialog = "Timeline Error"

\* The calls of scriptapp("Resolve") of a construction stop at the first
\* handle or after `retries` attempts, and a failed attempt is followed by
\* the next one.
ScriptappAttempts ==
    LET sc == CallsOf("scriptapp") IN
    /\ Cardinality(sc) <= Retries
    /\ \A i \in sc : lastOp.calls[i][2] = i
    /\ \A i \in sc : lastOp.calls[i][4] = "ok" => \A j \in sc : j <= i
    /\ \A i \in sc : lastOp.calls[i][4] # "ok" /\ i < Retries => i + 1 \in sc
    /\ dvr = None => sc = {}

HandleReturned == \E i \in CallsOf("scriptapp") : lastOp.calls[i][4] = "ok"

SetupMethods == {"GetProjectManager", "GetCurrentProject", "CreateProject", "GetMediaPool"}

SetupFailed ==
    \E i \in DOMAIN lastOp.calls :
       lastOp.calls[i][1] \in SetupMethods /\ lastOp.calls[i][4] # "ok"

\* C13 as stated: construction makes at most `retries` scriptapp calls, none
\* after the first that returns a handle, counts a raising call (or a
\* missing scripting module) as a failed attempt, and raises if and only if
\* no attempt returned a handle; a constructed controller has a handle.
C13_RaisesIffNoHandle ==
    lastOp.op = "__init__" =>
       /\ ScriptappAttempts
       /\ lastOp.raised <=> ~HandleReturned
       /\ ctl = "built" => HandleReturned

\* C13, amended: as above, but construction raises if and only if no attempt
\* returned a handle or a call of the project set-up that follows
\* (GetProjectManager, GetCurrentProject, CreateProject, GetMediaPool) failed.
C13_RaisesIffNoHandleOrSetupFailed ==
    lastOp.op = "__init__" =>
       /\ ScriptappAttempts
       /\ lastOp.raised <=> (~HandleReturned \/ SetupFailed)
       /\ ctl = "built" <=> ~lastOp.raised
       /\ ctl = "built" => HandleReturned

\* The second attempt raised, the third returned the handle, and the
\* controller was constructed.
C13_Witness ==
    /\ lastOp.op = "__init__"
    /\ Cardinality(CallsOf("scriptapp")) = Retries
    /\ lastOp.calls[1][4] = "none"
    /\ lastOp.calls[2][4] = "raise"
    /\ lastOp.calls[3][4] = "ok"
    /\ ctl = "built"

\* C14: import_media passes to ImportMedia exactly the given paths that exist
\* on disk, in their order; when none exists it makes no host call and
\* returns None; otherwise it makes one call and returns what the call
\* returned (the imported items, or None).
C14_ImportOnlyExistingPaths ==
    lastOp.op = "import_media" =>
       LET file_paths == lastOp.arg[1]
           existing == {i \in DOMAIN file_paths : file_paths[i].exists}
       IN /\ existing = {} => lastOp.calls = <<>> /\ lastOp.ret = None
          /\ existing # {} =>
                /\ Len(lastOp.calls) = 1
                /\ lastOp.calls[1][1] = "ImportMedia"
                /\ LET passed == lastOp.calls[1][3][1] IN
                   /\ Len(passed) = Cardinality(existing)
                   /\ \A k \in DOMAIN passed :
                         \E i \in existing :
                            /\ passed[k] = file_paths[i].path
                            /\ Cardinality({j \in existing : j < i}) = k - 1
                /\ lastOp.calls[1][4] = "ok" => lastOp.ret = "items"
                /\ lastOp.calls[1][4] = "none" => lastOp.ret = None
          /\ ~lastOp.raised

\* A missing path followed by an existing one: only the second reached
\* ImportMedia, whose result was returned.
C14_Witness ==
    /\ lastOp.op = "import_media"
    /\ Len(lastOp.arg[1]) = 2
    /\ ~lastOp.arg[1][1].exists
    /\ lastOp.arg[1][2].exists
    /\ Len(lastOp.calls) = 1
    /\ lastOp.calls[1][3] = <<(<<lastOp.arg[1][2].path>>)>>
    /\ lastOp.ret = "items"

\* The positions of the attempts (imports and dynamic loads) of the last
\* load_resolve_script call, and the library paths it tried, in order.
Attempts == {i \in DOMAIN lastOp.calls : lastOp.calls[i][1] \in {"import", "load_dynamic"}}

IsLoad(call) == call[1] = "load_dynamic"

Tried == SelectSeq(lastOp.calls, IsLoad)

\* C15: load_resolve_script tries the direct import, then the import after
\* adding the module directories, then the library paths that exist, in
\* list order with RESOLVE_SCRIPT_LIB first; it returns the module of the
\* first attempt that succeeds and tries nothing after it; a library that
\* fails to load is followed by the next one; None is returned only when
\* every attempt failed.
C15_StrategyOrder ==
    lastOp.op = "load_resolve_script" =>
       LET inp == lastOp.arg[1]
           calls == lastOp.calls
           standard == StandardPaths(inp.system)
           OnDisk(path) == path \in inp.exists
           expected == SelectSeq((IF inp.env THEN <<EnvPath>> ELSE <<>>) \o standard, OnDisk)
       IN /\ calls[1][1] = "import" /\ calls[1][2] = 1
          /\ \A i \in Attempts : i > 1 /\ calls[i][1] = "import" =>
                /\ calls[i][2] = 2
                /\ \A j \in Attempts : j < i => j = 1
                /\ \A j \in 2..(i - 1) : calls[j][1] = "sys.path.append"
                /\ {calls[j][3][1] : j \in 2..(i - 1)} = inp.dirs
          /\ \A i \in Attempts : calls[i][1] = "load_dynamic" =>
                \E j \in Attempts : j < i /\ calls[j][1] = "import" /\ calls[j][2] = 2
          /\ \A i \in Attempts : calls[i][4] = "ok" =>
                i = Len(calls) /\ lastOp.ret = "module"
          /\ \A i \in Attempts : calls[i][4] # "ok" /\ i < Len(calls) => i + 1 \in DOMAIN calls
          /\ Len(Tried) <= Len(expected)
          /\ \A k \in DOMAIN Tried : Tried[k][3][1] = expected[k]
          /\ Len(Tried) < Len(expected) =>
                \/ Tried # <<>> /\ Tried[Len(Tried)][4] = "ok"
                \/ Tried = <<>> /\ calls[Len(calls)][4] # "ImportError"
          /\ lastOp.ret = None /\ ~lastOp.raised =>
                /\ \A i \in Attempts : calls[i][4] \in {"ImportError", "raise"}
                /\ Cardinality({i \in Attempts : calls[i][1] = "import"}) = 2
                /\ Len(Tried) = Len(expected)
          /\ lastOp.ret = "module" => calls[Len(calls)][4] = "ok"
          /\ lastOp.raised => calls[Len(calls)][4] = "error"

\* Both imports failed, the library named by RESOLVE_SCRIPT_LIB exists but
\* did not load, and the next library that exists was loaded and returned.
C15_Witness ==
    /\ lastOp.op = "load_resolve_script"
    /\ Len(Tried) = 2
    /\ Tried[1][3] = <<EnvPath>>
    /\ Tried[1][4] = "raise"
    /\ Tried[2][4] = "ok"
    /\ lastOp.ret = "module"
    /\ dvr = "module"

\* The transition pass of the last operation obtained the track: its
\* GetItemListInTrack call returned the list of items.
TrackObtained ==
    \E i \in CallsOf("GetItemListInTrack") : lastOp.calls[i][4] = "ok"

C20_CreatedTimelineReturned ==
    lastOp.op = "create_timeline" =>
       LET created == \E i \in CallsOf("CreateTimelineFromClips") : lastOp.calls[i][4] = "ok"
       IN /\ created => lastOp.ret = "timeline"
          /\ ~created => lastOp.ret = None

\* C12: the clips put on the timeline after scene detection are trimmed: the
\* start and end of every segment, in seconds or as timecodes, are part of
\* what the host's AppendToTimeline call receives for it.
C12_TrimBoundsReachHost ==
    lastOp.op = "update_timeline_with_trimmed_clips" =>
       \A i \in CallsOf("AppendToTimeline") :
          LET new_clip == lastOp.arg[1][lastOp.calls[i][2]]
              args == lastOp.calls[i][3]
          IN /\ Len(args) >= 3
             /\ \/ <<args[2], args[3]>> = <<new_clip[2], new_clip[3]>>
                \/ <<args[2], args[3]>> = <<seconds_to_timecode(new_clip[2]),
                                            seconds_to_timecode(new_clip[3])>>

\* ------------------------------------------------------------------------
\* workers.py: the arithmetic of int(i / total_steps * 100)
\*
\* Python evaluates i / total_steps and the product with 100 in IEEE-754
\* binary64, each rounded to nearest-even, and int() truncates.  A double is
\* modelled as [m, e]: its 53-bit significand m as five limbs of LimbBits
\* bits, least significant limb first (the fifth limb is the leading 1), and
\* the exponent e of the last bit (the value is m * 2^e).
\* ------------------------------------------------------------------------
LimbBits == 13

FractionLimbs == 4      \* 1 + FractionLimbs * LimbBits = 53 significand bits

RECURSIVE Pow2(_)
Pow2(n) == IF n = 0 THEN 1 ELSE 2 * Pow2(n - 1)

LimbBase == Pow2(LimbBits)

Limb(m, j) == IF j \in 1..Len(m) THEN m[j] ELSE 0

\* The least s with a * 2^s >= d, from s upwards (a > 0).
RECURSIVE NormShift(_, _, _)
NormShift(a, d, s) == IF a >= d THEN s ELSE NormShift(2 * a, d, s + 1)

\* The number of bits of v > 0.
RECURSIVE BitLength(_)
BitLength(v) == IF v = 0 THEN 0 ELSE 1 + BitLength(v \div 2)

\* The n following quotient limbs (most significant first) of the long
\* division with remainder r < d, and the remainder left.
RECURSIVE DivLimbs(_, _, _)
DivLimbs(r, d, n) ==
    IF n = 0 THEN [limbs |-> <<>>, rem |-> r]
    ELSE LET rest == DivLimbs((r * LimbBase) % d, d, n - 1)
         IN [limbs |-> <<(r * LimbBase) \div d>> \o rest.limbs, rem |-> rest.rem]

Reverse(b) == [k \in 1..Len(b) |-> b[Len(b) + 1 - k]]

\* m + 1 on the limbs from j on; the leading limb takes the last carry.
RECURSIVE LimbsIncrement(_, _)
LimbsIncrement(m, j) ==
    IF j = Len(m) \/ m[j] + 1 < LimbBase THEN [m EXCEPT ![j] = @ + 1]
    ELSE LimbsIncrement([m EXCEPT ![j] = 0], j + 1)

\* Rounds the significand [m, e] to nearest, ties to even, given that the
\* discarded part compares to one half as cmp (-1 below, 0 equal, 1 above).
RoundNearestEven(m, e, cmp) ==
    IF cmp > 0 \/ (cmp = 0 /\ m[1] % 2 = 1)
    THEN LET up == LimbsIncrement(m, 1) IN
         IF up[Len(up)] > 1
         THEN [m |-> [k \in 1..Len(up) |-> IF k = Len(up) THEN 1 ELSE 0], e |-> e + 1]
         ELSE [m |-> up, e |-> e]
    ELSE [m |-> m, e |-> e]

\* The least t with a < d * 2^(t + 1), from t upwards.
RECURSIVE PreShift(_, _, _)
PreShift(a, d, t) == IF a < 2 * d THEN t ELSE PreShift(a, 2 * d, t + 1)

\* The double a / d, for small integers a > 0 and d > 0.
FloatDiv(a, d) ==
    LET t == PreShift(a, d, 0)
        dd == d * Pow2(t)
        s == NormShift(a, dd, 0)
        q == DivLimbs(a * Pow2(s) - dd, dd, FractionLimbs)   \* the quotient is 1.xxx
        cmp == IF 2 * q.rem > dd THEN 1 ELSE IF 2 * q.rem = dd THEN 0 ELSE -1
    IN RoundNearestEven(Reverse(<<1>> \o q.limbs), t - s - FractionLimbs * LimbBits, cmp)

\* The limbs of m * c from limb j on, for a small integer c; the leading
\* limb takes the last carry.
RECURSIVE LimbsTimes(_, _, _, _)
LimbsTimes(m, c, j, carry) ==
    LET t == c * m[j] + carry IN
    IF j = Len(m) THEN <<t>>
    ELSE <<t % LimbBase>> \o LimbsTimes(m, c, j + 1, t \div LimbBase)

\* The double x * c, for a double x > 0 and a small integer c > 0.
FloatTimes(x, c) ==
    LET p == LimbsTimes(x.m, c, 1, 0)
        n == Len(p)
        d == BitLength(p[n]) - 1                 \* the bits to discard
        low == p[1] % Pow2(d)
        half == Pow2(d - 1)
        cmp == IF d = 0 THEN -1
               ELSE IF low > half THEN 1 ELSE IF low = half THEN 0 ELSE -1
        kept == [k \in 1..n |->
                    (p[k] \div Pow2(d))
                    + (IF k < n THEN (p[k + 1] % Pow2(d)) * Pow2(LimbBits - d) ELSE 0)]
    IN RoundNearestEven(kept, x.e + d, cmp)

\* int(x), for a double 0 < x < 2^31.
FloatTrunc(x) ==
    LET q == (-x.e) \div LimbBits
        r == (-x.e) % LimbBits
    IN (Limb(x.m, q + 1) \div Pow2(r))
       + Limb(x.m, q + 2) * Pow2(LimbBits - r)
       + Limb(x.m, q + 3) * Pow2(2 * LimbBits - r)

\* int(i / total_steps * 100), for i >= 0 and total_steps > 0.  The quotients
\* 0.0 and 1.0 and their products with 100 are exact.
Percent(i, total_steps) ==
    IF i = 0 THEN 0
    ELSE IF i = total_steps THEN 100
    ELSE FloatTrunc(FloatTimes(FloatDiv(i, total_steps), 100))

\* ------------------------------------------------------------------------
\* workers.py: the worker objects and their run() loops
\* ------------------------------------------------------------------------
MaxExports == 5     \* the largest num_exports / num_clips of a worker
MaxItems == 2       \* the longest imported_items list
MaxDuration == 5    \* the longest numeric clip duration, in seconds

LoopKinds == {"ai", "export", "batch"}

\* A signal emission of worker id: progress(val) or finished / finished(clips).
Event(id, sig, val, clips) == [w |-> id, sig |-> sig, val |-> val, clips |-> clips]

\* A worker object moved to its own thread, before run() has begun.
\*   pc        "new", "run", "segments" (scene: the segment loop) or "done"
\*   i         the next index of the for loop / the number of items taken
\*   total     total_steps / total_items
\*   counter   progress_counter
\*   cur       the clip of the item whose segments are being made
\*   changes   scene_changes
\*   raised    an exception reached the except clause of run()
\*   th        the thread: "running", "quit" (asked to quit) or "finished"
\*   handled   the finished signal was delivered to the main window
Worker(kind, num) ==
    [kind |-> kind, num |-> num, pc |-> "new", i |-> 0, total |-> 0, counter |-> 0,
     cur |-> 0, changes |-> <<>>, new_clips |-> <<>>, raised |-> FALSE,
     th |-> "running", handled |-> FALSE]

\* total_steps of the three loop workers.
total_steps(kind, num) == IF kind = "batch" THEN 100 * num ELSE 100

\* The worker threads run, and there is room in the event queue; cap = 0 is
\* a queue without limit.
Room(cap) == ~crashed /\ (cap = 0 \/ Len(queue) < cap)

\* finished is emitted by a loop worker.  Its slot `lambda: progress_bar.hide()`
\* is no method of an object of the main thread: it runs at once in the
\* worker's thread (direct), or it is queued to the main thread with the
\* other slots; the event tells in val whether the hide is still to run.
Finishes(id, direct) ==
    /\ queue' = Append(queue, Event(id, "finished", IF direct THEN 0 ELSE 1, <<>>))
    /\ barVisible' = IF direct THEN FALSE ELSE barVisible
    /\ UNCHANGED <<barValue, dialog>>

\* run() begins: total_steps / total_items are computed.
RunBegin ==
    \E id \in DOMAIN wks :
       /\ ~crashed
       /\ wks[id].pc = "new"
       /\ wks' = [wks EXCEPT ![id].pc = "run",
                             ![id].total = IF wks[id].kind = "scene" THEN Len(imported_items)
                                           ELSE total_steps(wks[id].kind, wks[id].num)]
       /\ UNCHANGED <<backendVars, barVars, queue, imported_items, preview_widgets, settings, files, clipVars, logVars, crashed>>

\* The first index from i on whose loop body emits (i % 5 == 0); the other
\* iterations only sleep.
RECURSIVE NextEmit(_)
NextEmit(i) == IF i % 5 = 0 THEN i ELSE NextEmit(i + 1)

\* The value a loop worker emits at index i.
ProgressValue(kind, i, total) == IF kind = "batch" THEN Percent(i, total) ELSE i

\* AIWorker.run, ExportWorker.run, BatchExportWorker.run from index w.i up to
\* and including the next emission.
LoopRunSkipsZero(w, id) ==
    LET j == NextEmit(w.i + 1) IN
    IF j > w.total
    THEN [w |-> [w EXCEPT !.pc = "done"], out |-> <<>>]
    ELSE [w |-> [w EXCEPT !.i = j + 1],
          out |-> <<Event(id, "progress", ProgressValue(w.kind, j, w.total), <<>>)>>]

LoopRun(w, id) ==
    LET j == NextEmit(w.i) IN
    IF j > w.total                              \* range(total_steps + 1) is exhausted
    THEN [w |-> [w EXCEPT !.pc = "done"], out |-> <<>>]
    ELSE IF w.kind = "batch" /\ w.total = 0     \* ZeroDivisionError: except
    THEN [w |-> [w EXCEPT !.pc = "done", !.raised = TRUE], out |-> <<>>]
    ELSE [w |-> [w EXCEPT !.i = j + 1],
          out |-> <<Event(id, "progress", ProgressValue(w.kind, j, w.total), <<>>)>>]

RunLoop(cap) ==
    /\ Room(cap)
    /\ \E id \in DOMAIN wks :
       /\ wks[id].kind \in LoopKinds /\ wks[id].pc = "run"
       /\ LET r == LoopRun(wks[id], id)
          IN /\ wks' = [wks EXCEPT ![id] = r.w]
             /\ IF r.w.pc = "done"                \* the finally clause
                THEN \E direct \in BOOLEAN : Finishes(id, direct)
                ELSE queue' = queue \o r.out /\ UNCHANGED barVars
    /\ UNCHANGED <<backendVars, imported_items, preview_widgets, settings, files, clipVars, logVars, crashed>>

\* A statement of the loop body raises: the except clause logs, the finally
\* clause emits finished.
RunRaises(cap) ==
    /\ Room(cap)
    /\ \E id \in DOMAIN wks :
       /\ wks[id].kind \in LoopKinds /\ wks[id].pc = "run"
       /\ wks[id].i <= wks[id].total
       /\ wks' = [wks EXCEPT ![id].pc = "done", ![id].raised = TRUE]
       /\ \E direct \in BOOLEAN : Finishes(id, direct)
    /\ UNCHANGED <<backendVars, imported_items, preview_widgets, settings, files, clipVars, logVars, crashed>>

\* ------------------------------------------------------------------------
\* workers.py: SceneDetectionWorker
\*
\* An entry of imported_items is None, an object without the clip methods
\* ("invalid"), a timeline item (GetMediaPoolItem answers mp) or a media pool
\* item.  The "Duration" property of a media pool item is None (or 0, or a
\* failing call), a timecode string "HH:MM:SS" (kept as <<HH, MM, SS>>), a
\* non-finite float ("nan") or a finite positive number, kept in half seconds.
\* ------------------------------------------------------------------------
RandLo == 20
RandHi == 60

Duration(t, half) == [t |-> t, half |-> half, tc |-> <<0, 0, 0>>]

Timecode(hh, mm, ss) == [t |-> "str", half |-> 0, tc |-> <<hh, mm, ss>>]

SceneItem(kind, clip, mp, dur) == [kind |-> kind, clip |-> clip, mp |-> mp, dur |-> dur]

NumericDurations == {Duration("num", h) : h \in 1..(2 * MaxDuration)}

\* The items whose processing draws no random duration.
PlainItems ==
    {SceneItem("None", 0, "none", Duration("none", 0)),
     SceneItem("invalid", 0, "none", Duration("none", 0)),
     SceneItem("timeline", 1, "none", Duration("none", 0)),
     SceneItem("timeline", 1, "raise", Duration("none", 0)),
     SceneItem("timeline", 1, "ok", Duration("num", 8))}
    \cup {SceneItem("media", 1, "ok", d) : d \in NumericDurations \cup {Duration("nan", 0)}}
    \cup {SceneItem("media", c, "ok", Duration("num", 2 * MaxDuration)) : c \in Clips}

\* The items whose duration is drawn by random.randint(20, 60).
FallbackItems ==
    {SceneItem("media", 1, "ok", d) : d \in {Duration("none", 0), Timecode(0, 1, 5)}}

SceneLists == SeqsUpTo(PlainItems, MaxItems) \cup {<<it>> : it \in FallbackItems}

\* The item is skipped before its properties are read (lines 87-117).
Skipped(item) ==
    \/ item.kind = "None"
    \/ item.kind = "timeline" /\ item.mp # "ok"
    \/ item.kind = "invalid"

\* The durations, in half seconds, lines 128-146 can end with: a string is
\* no int or float, so line 129 sends it to the random branch and the
\* timecode conversion of lines 133-142 is never reached.
DurationsOf(dur) ==
    IF dur.t = "num" THEN {dur.half} ELSE {2 * D : D \in RandLo..RandHi}

\* int(duration)
IntOfRoundingUp(half) == (half + 1) \div 2

IntOf(half) == half \div 2

\* random.randint(2, int(duration) - 2) if duration > 4 else 1 (else 2)
CutChoices(half, short) == IF half > 8 THEN 2..(IntOf(half) - 2) ELSE {short}

RECURSIVE Insert(_, _)
Insert(x, s) ==
    IF s = <<>> THEN <<x>>
    ELSE IF x <= Head(s) THEN <<x>> \o s
    ELSE <<Head(s)>> \o Insert(x, Tail(s))

RECURSIVE sorted(_)
unsorted(s) == s

sorted(s) == IF s = <<>> THEN <<>> ELSE Insert(Head(s), sorted(Tail(s)))

\* The segments of scene_changes that are long enough to be kept.
LongSegments(changes) == {i \in 1..(Len(changes) - 1) : ~(changes[i + 1] - changes[i] < 2)}

\* The segment loop (lines 158-171); dark holds the indexes at which
\* random.random() < 0.1.
RECURSIVE SegmentLoop(_, _, _, _)
SegmentLoop(changes, clip, dark, i) ==
    IF i > Len(changes) - 1 THEN <<>>
    ELSE LET start == changes[i]
             end == changes[i + 1]
         IN (IF end - start < 2 \/ i \in dark THEN <<>>
             ELSE <<<<Item(clip, FALSE), start, end>>>>)
            \o SegmentLoop(changes, clip, dark, i + 1)

\* int((progress_counter / total_items) * 100)
ScenePercent(w) == Percent(w.counter + 1, w.total)

\* An item skipped early: it is counted and progress is always emitted.
SkipItem(w, id) ==
    [w |-> [w EXCEPT !.i = @ + 1, !.counter = @ + 1],
     out |-> <<Event(id, "progress", ScenePercent(w), <<>>)>>]

\* Lines 176-178: the item is counted; progress is emitted on every second
\* item and on the last one.  The locals of the iteration are dead from here.
BottomEverySecond(w, id) ==
    [w |-> [w EXCEPT !.counter = @ + 1, !.pc = "run", !.cur = 0, !.changes = <<>>],
     out |-> IF (w.counter + 1) % 2 = 0
             THEN <<Event(id, "progress", ScenePercent(w), <<>>)>>
             ELSE <<>>]

Bottom(w, id) ==
    [w |-> [w EXCEPT !.counter = @ + 1, !.pc = "run", !.cur = 0, !.changes = <<>>],
     out |-> IF (w.counter + 1) % 2 = 0 \/ w.counter + 1 = w.total
             THEN <<Event(id, "progress", ScenePercent(w), <<>>)>>
             ELSE <<>>]

\* SceneDetectionWorker.run takes the next item of the list, up to the log
\* of its scene changes, or leaves the loop and emits finished(new_clips).
RunScene(cap) ==
    /\ Room(cap)
    /\ \E id \in DOMAIN wks :
       /\ wks[id].kind = "scene" /\ wks[id].pc = "run"
       /\ LET w == wks[id] IN
          IF ~(w.i < Len(imported_items))
          THEN /\ wks' = [wks EXCEPT ![id].pc = "done"]
               /\ queue' = Append(queue, Event(id, "finished", 0, w.new_clips))
          ELSE LET item == imported_items[w.i + 1] IN
               IF Skipped(item)
               THEN /\ wks' = [wks EXCEPT ![id] = SkipItem(w, id).w]
                    /\ queue' = queue \o SkipItem(w, id).out
               ELSE IF item.dur.t = "nan"       \* int(duration) raises: line 173
               THEN LET r == Bottom([w EXCEPT !.i = @ + 1], id)
                    IN /\ wks' = [wks EXCEPT ![id] = r.w]
                       /\ queue' = queue \o r.out
               ELSE \E half \in DurationsOf(item.dur) :
                    \E t1 \in CutChoices(half, 1), t2 \in CutChoices(half, 2) :
                       /\ wks' = [wks EXCEPT ![id].i = @ + 1,
                                             ![id].pc = "segments",
                                             ![id].cur = item.clip,
                                             ![id].changes =
                                                 sorted(<<0, t1, t2, IntOf(half)>>)]
                       /\ queue' = queue
    /\ UNCHANGED <<backendVars, barVars, imported_items, preview_widgets, settings, files, clipVars, logVars, crashed>>

\* The segment loop of the current item, then lines 176-178.
RunSegments(cap) ==
    /\ Room(cap)
    /\ \E id \in DOMAIN wks :
       /\ wks[id].kind = "scene" /\ wks[id].pc = "segments"
       /\ \E dark \in SUBSET LongSegments(wks[id].changes) :
          LET w == wks[id]
              made == SegmentLoop(w.changes, w.cur, dark, 1)
              r == Bottom([w EXCEPT !.new_clips = @ \o made], id)
          IN /\ wks' = [wks EXCEPT ![id] = r.w]
             /\ queue' = queue \o r.out
    /\ UNCHANGED <<backendVars, barVars, imported_items, preview_widgets, settings, files, clipVars, logVars, crashed>>

\* ------------------------------------------------------------------------
\* A worker run on its own: one worker object, nothing delivered
\* ------------------------------------------------------------------------
\* The controller is not constructed and no window is shown.
NoBackend ==
    /\ hostProject = FALSE
    /\ hostTimeline = FALSE
    /\ hostExposes = CoreMethods
    /\ track = <<>>
    /\ ctl = "unbuilt"
    /\ available_methods = NoMethods
    /\ dvr = None
    /\ lastOp = NoOp
    /\ barVisible = FALSE
    /\ barValue = 0
    /\ dialog = None
    /\ preview_widgets = <<>>
    /\ crashed = FALSE
    /\ settings = DEFAULT_SETTINGS
    /\ files = {}
    /\ clip_count = 0
    /\ widgets = <<>>
    /\ last_msg = None
    /\ decided = <<>>
    /\ filtering = NotFiltering

InitWorkers ==
    /\ NoBackend
    /\ wks \in {<<Worker(kind, num)>> : kind \in {"ai", "batch"}, num \in 1..MaxExports}
               \cup {<<Worker("export", 0)>>, <<Worker("batch", 0)>>}
    /\ queue = <<>>
    /\ imported_items = <<>>

NextWorkers ==
    \/ RunBegin
    \/ RunLoop(0)
    \/ RunRaises(0)

SpecWorkers == InitWorkers /\ [][NextWorkers]_vars

InitScene ==
    /\ NoBackend
    /\ wks = <<Worker("scene", 0)>>
    /\ queue = <<>>
    /\ imported_items \in SceneLists \ {<<>>}

NextScene ==
    \/ RunBegin
    \/ RunScene(0)
    \/ RunSegments(0)

SpecScene == InitScene /\ [][NextScene]_vars

\* ------------------------------------------------------------------------
\* ui.py: the main window starts workers and handles their signals
\*
\* The main thread runs one handler at a time.  The signals of all workers
\* arrive in its event queue in the order of their emission.
\* ------------------------------------------------------------------------
MaxWorkers == 2     \* the number of workers started in one run
MaxQueue == 2       \* the number of emissions waiting in the event queue

GuiIdle == ~crashed /\ ctl = "built" /\ lastOp = NoOp

\* The attributes that hold the thread and the worker of this kind are
\* assigned while the thread they held is still alive.
Overwrites(kind) ==
    \E id \in DOMAIN wks : wks[id].kind = kind /\ wks[id].th # "finished"

\* progress_bar.show(); setValue(0); the new thread and worker are stored in
\* the attributes of their kind, wired and started.  Dropping the last
\* reference to a QThread that has not finished destroys a running thread:
\* the Qt runtime aborts the process, or the old thread lives on.
StartWorker(w) ==
    /\ barVisible' = TRUE
    /\ barValue' = 0
    /\ wks' = Append(wks, w)
    /\ crashed' \in (IF Overwrites(w.kind) THEN BOOLEAN ELSE {FALSE})

\* DroneVideoEditor.runAITask; with no preview it returns at once.
RunAITask ==
    /\ GuiIdle
    /\ Len(wks) < MaxWorkers
    /\ ~(Len(preview_widgets) = 0)
    /\ StartWorker(Worker("ai", Len(preview_widgets)))
    /\ UNCHANGED <<backendVars, dialog, queue, imported_items, preview_widgets, settings, files, clipVars, logVars>>

\* DroneVideoEditor.exportVideo, the export dialog being accepted.
ExportVideo ==
    /\ GuiIdle
    /\ Len(wks) < MaxWorkers
    /\ \E batch_export \in BOOLEAN :
          StartWorker(IF batch_export THEN Worker("batch", Len(preview_widgets))
                      ELSE Worker("export", 0))
    /\ UNCHANGED <<backendVars, dialog, queue, imported_items, preview_widgets, settings, files, clipVars, logVars>>

\* The timeline items detectScenes takes from track 1 of the host timeline;
\* mp is what their GetMediaPoolItem answers.
TimelineClips(mp) ==
    [k \in 1..Len(track) |->
        SceneItem("timeline", track[k], mp,
                  IF mp = "ok" THEN Duration("num", 8) ELSE Duration("none", 0))]

\* DroneVideoEditor.detectScenes.  An exception of GetItemListInTrack leaves
\* the slot unhandled, which aborts the process.
DetectScenes ==
    /\ GuiIdle
    /\ Len(wks) < MaxWorkers
    /\ IF ~(imported_items = <<>>)
       THEN /\ StartWorker(Worker("scene", 0))
            /\ UNCHANGED <<dialog, imported_items>>
       ELSE \E F \in FaultSets(Fails("GetCurrentTimeline", 1, {"raise"})
                               \cup (IF hostTimeline
                                     THEN Fails("GetItemListInTrack", 1, BothOutcomes)
                                     ELSE {})),
               mp \in {"ok", "none", "raise"} :
               LET timeline == get_current_timeline(hostTimeline, F, 1).ret
                   o == Out(F, "GetItemListInTrack", 1)
               IN IF timeline = None
                  THEN /\ dialog' = "No Clips"
                       /\ UNCHANGED <<barVisible, barValue, wks, imported_items, crashed>>
                  ELSE IF o = "raise"
                  THEN /\ crashed' = TRUE
                       /\ UNCHANGED <<barVars, wks, imported_items>>
                  ELSE IF o = "none" \/ track = <<>>
                  THEN /\ dialog' = "No Clips"
                       /\ UNCHANGED <<barVisible, barValue, wks, imported_items, crashed>>
                  ELSE /\ imported_items' = imported_items \o TimelineClips(mp)
                       /\ StartWorker(Worker("scene", 0))
                       /\ UNCHANGED dialog
    /\ UNCHANGED <<backendVars, queue, preview_widgets, settings, files, clipVars, logVars>>

\* progress_bar.setValue receives a progress signal.
DeliverProgress ==
    /\ GuiIdle
    /\ ~(queue = <<>>)
    /\ Head(queue).sig = "progress"
    /\ barValue' = Head(queue).val
    /\ queue' = Tail(queue)
    /\ UNCHANGED <<backendVars, barVisible, dialog, wks, imported_items, preview_widgets, settings, files, clipVars, logVars,
                   crashed>>

\* The main thread receives finished of an AI, export or batch worker:
\* thread.quit, and the hide lambda unless it ran in the worker's thread.
DeliverFinished ==
    /\ GuiIdle
    /\ ~(queue = <<>>)
    /\ Head(queue).sig = "finished"
    /\ wks[Head(queue).w].kind \in LoopKinds
    /\ wks' = [wks EXCEPT ![Head(queue).w].th = "quit", ![Head(queue).w].handled = TRUE]
    /\ barVisible' = IF Head(queue).val = 1 THEN FALSE ELSE barVisible
    /\ queue' = Tail(queue)
    /\ UNCHANGED <<backendVars, barValue, dialog, imported_items, preview_widgets, settings, files, clipVars, logVars, crashed>>

\* The main thread receives finished(new_clips) of the scene worker: its
\* only slot there is onSceneDetectionFinished.
DeliverSceneFinished ==
    /\ GuiIdle
    /\ ~(queue = <<>>)
    /\ Head(queue).sig = "finished"
    /\ wks[Head(queue).w].kind = "scene"
    /\ \E lutExists \in BOOLEAN :
       \E F \in UpdateTimelineFaults(Head(queue).clips, lutExists) :
          onSceneDetectionFinished(Head(queue).clips, F, lutExists)
    /\ wks' = [wks EXCEPT ![Head(queue).w].handled = TRUE]
    /\ queue' = Tail(queue)
    /\ UNCHANGED <<lastOp, imported_items, preview_widgets, settings, files, clipVars, logVars, crashed>>

\* A thread that was asked to quit leaves its event loop.
ThreadFinishes ==
    /\ ~crashed
    /\ \E id \in DOMAIN wks :
       /\ wks[id].th = "quit"
       /\ wks' = [wks EXCEPT ![id].th = "finished"]
    /\ UNCHANGED <<backendVars, barVars, queue, imported_items, preview_widgets, settings, files, clipVars, logVars, crashed>>

\* DroneVideoEditor.addClipPreview places the n-th preview (counting from 0)
\* in a grid of Columns columns.
Columns == 4

Cell(n) == <<n \div Columns, n % Columns>>

\* A VideoPreviewWidget just created by addClipPreview when clip_count is n:
\* it has its media player and is placed in the grid.
Widget(file_path, n) ==
    [file_path |-> file_path, media_player |-> TRUE, placed |-> TRUE, cell |-> Cell(n),
     deleteLater |-> FALSE]

\* The window is shown: the controller was constructed without a failure on
\* a host with a project, nothing is imported or at most one clip is.  The
\* only exception inside a worker loop is the division by total_steps = 0.
InitUI ==
    /\ hostProject = TRUE
    /\ hostTimeline \in BOOLEAN
    /\ hostExposes \in {CoreMethods, CoreMethods \cup OptionalMethods}
    /\ track \in IF hostTimeline THEN {<<>>, <<1>>} ELSE {<<>>}
    /\ ctl = "built"
    /\ available_methods = DetectAvailableMethods({}, hostProject, hostTimeline, hostExposes)
    /\ dvr = "module"
    /\ lastOp = NoOp
    /\ barVisible = FALSE
    /\ barValue = 0
    /\ dialog = None
    /\ wks = <<>>
    /\ queue = <<>>
    /\ \E n \in 0..1 :
          /\ preview_widgets = [k \in 1..n |-> k]
          /\ imported_items = [k \in 1..n |-> SceneItem("media", 1, "ok", Duration("num", 8))]
          /\ clip_count = n
          /\ widgets = [k \in 1..n |-> Widget("a.mp4", k - 1)]
    /\ crashed = FALSE
    /\ settings = DEFAULT_SETTINGS
    /\ files = {}
    /\ last_msg = None
    /\ decided = <<>>
    /\ filtering = NotFiltering

NextUI ==
    \/ RunAITask
    \/ ExportVideo
    \/ DetectScenes
    \/ RunBegin
    \/ RunLoop(MaxQueue)
    \/ RunScene(MaxQueue)
    \/ RunSegments(MaxQueue)
    \/ DeliverProgress
    \/ DeliverFinished
    \/ DeliverSceneFinished
    \/ ThreadFinishes

SpecUI == InitUI /\ [][NextUI]_vars

\* ------------------------------------------------------------------------
\* ui.py: the clip list and the project files
\* ------------------------------------------------------------------------
MaxPreviews == 2

\* The video files the user can choose in the import dialog.
VideoFiles == {"a.mp4", "b.mp4"}

\* The names the user can give in the Save Project and Open Project dialogs.
ProjectFiles == {"project.json", "copy.json"}

\* json.dump: the JSON text of a Python value, as the tree of its JSON
\* values.  A bool is written as true or false; the keys of the dicts
\* written here are all str.
RECURSIVE dumpsBoolAsNumber(_)
RECURSIVE dumps(_)
dumpsBoolAsNumber(x) ==
    CASE x.t = "str" -> [j |-> "string", string |-> x.str]
      [] x.t = "bool" -> [j |-> "number", number |-> IF x.bool THEN 1 ELSE 0]
      [] x.t = "int" -> [j |-> "number", number |-> x.int]
      [] x.t = "list" -> [j |-> "array", array |-> [k \in DOMAIN x.list |-> dumps(x.list[k])]]
      [] x.t = "dict" -> [j |-> "object", object |-> [k \in DOMAIN x.dict |-> dumps(x.dict[k])]]

dumps(x) ==
    CASE x.t = "str" -> [j |-> "string", string |-> x.str]
      [] x.t = "bool" -> [j |-> IF x.bool THEN "true" ELSE "false"]
      [] x.t = "int" -> [j |-> "number", number |-> x.int]
      [] x.t = "list" -> [j |-> "array", array |-> [k \in DOMAIN x.list |-> dumps(x.list[k])]]
      [] x.t = "dict" -> [j |-> "object", object |-> [k \in DOMAIN x.dict |-> dumps(x.dict[k])]]

\* json.load: the Python value of a JSON text.
RECURSIVE loads(_)
loads(y) ==
    CASE y.j = "string" -> PyStr(y.string)
      [] y.j = "true" -> PyBool(TRUE)
      [] y.j = "false" -> PyBool(FALSE)
      [] y.j = "number" -> PyInt(y.number)
      [] y.j = "array" -> PyList([k \in DOMAIN y.array |-> loads(y.array[k])])
      [] y.j = "object" -> PyDict([k \in DOMAIN y.object |-> loads(y.object[k])])

\* project_data of saveProject: the file paths of the widgets and the
\* settings.
ProjectData(clips, s) ==
    PyDict([clips |-> PyList([k \in DOMAIN clips |-> PyStr(clips[k])]), settings |-> s])

FileNamed(name) == {f \in files : f.name = name}

\* open(file_path, "w") followed by json.dump: the file holds the new
\* content, whatever it held before.
WriteFile(name, data) ==
    (files \ FileNamed(name)) \cup {[name |-> name, data |-> data]}

\* The clip list of the window: the widget objects, the list of previews
\* and the counter.
Previews(ws, pw, cc) == [widgets |-> ws, preview_widgets |-> pw, clip_count |-> cc]

ThePreviews == Previews(widgets, preview_widgets, clip_count)

\* [widget.file_path for widget in self.preview_widgets]
WidgetPaths(st) == [k \in DOMAIN st.preview_widgets |-> st.widgets[st.preview_widgets[k]].file_path]

\* The identity of a new object: one that no live object has.
NewId(ws) == CHOOSE n \in 1..(Cardinality(DOMAIN ws) + 1) : n \notin DOMAIN ws

\* DroneVideoEditor.addClipPreview, without its call of backend.import_media.
addClipPreview(st, file_path) ==
    LET preview_widget == NewId(st.widgets)
    IN Previews([id \in DOMAIN st.widgets \cup {preview_widget} |->
                    IF id = preview_widget THEN Widget(file_path, st.clip_count)
                    ELSE st.widgets[id]],
                Append(st.preview_widgets, preview_widget),
                st.clip_count + 1)

\* addClipPreview for each of file_paths, in order.
RECURSIVE AddPreviews(_, _)
AddPreviews(st, file_paths) ==
    IF file_paths = <<>> THEN st
    ELSE AddPreviews(addClipPreview(st, Head(file_paths)), Tail(file_paths))

\* DroneVideoEditor.addClipPreview for each of file_paths: the host calls of
\* backend.import_media([file_path]), numbered from k + 1 on.
PreviewCalls(file_paths, k) ==
    [j \in 1..Len(file_paths) |-> <<"ImportMedia", k + j, <<(<<file_paths[j]>>)>>, "ok">>]

\* What media_pool.ImportMedia returns for file_paths when it succeeds.
NewItems(file_paths) ==
    [k \in 1..Len(file_paths) |-> SceneItem("media", file_paths[k], "ok", Duration("num", 8))]

\* DroneVideoEditor.importFootage; file_paths are the files chosen in the
\* dialog (none when it was cancelled), one of selections.
ImportFootageOf(selections) ==
    /\ GuiIdle
    /\ \E file_paths \in selections,
          F \in FaultSets(Fails("ImportMedia", 1, BothOutcomes)) :
       LET chosen == [k \in 1..Len(file_paths) |-> [path |-> file_paths[k], exists |-> TRUE]]
           r == import_media(chosen, F)
           new_items == IF r.ret = None THEN <<>> ELSE NewItems(file_paths)
           st == AddPreviews(ThePreviews, file_paths)
       IN /\ Len(preview_widgets) + Len(file_paths) <= MaxPreviews
          /\ Len(imported_items) + Len(new_items) <= MaxItems
          /\ file_paths = <<>> => F = {}
          /\ imported_items' = imported_items \o new_items
          /\ preview_widgets' = st.preview_widgets
          /\ widgets' = st.widgets
          /\ clip_count' = st.clip_count
          /\ lastOp' = Op("importFootage", <<file_paths>>, None, FALSE,
                          r.calls \o PreviewCalls(file_paths, 1))
    /\ UNCHANGED <<hostFrame, track, barVars, wks, queue, settings, files, crashed, logVars>>

ImportFootage == ImportFootageOf(SeqsUpTo(VideoFiles, MaxPaths))

\* The dialog is cancelled, or the user chooses the one video file of a
\* folder.
ImportOneFile == ImportFootageOf({<<>>, <<"a.mp4">>})

\* VideoPreviewWidget.cleanup followed by the rest of removeClip, for the
\* widget object id: error is TRUE when the handler ended in its except
\* branch.  cleanup raises on a widget whose media player is None already.
removeClipCountingFirst(st, id) ==
    IF ~st.widgets[id].media_player
    THEN [st |-> Previews(st.widgets, st.preview_widgets, st.clip_count - 1), error |-> TRUE]
    ELSE [st |-> Previews([st.widgets EXCEPT ![id].media_player = FALSE,
                                              ![id].placed = FALSE,
                                              ![id].deleteLater = TRUE],
                          SelectSeq(st.preview_widgets, LAMBDA w : w # id),
                          st.clip_count - 1),
          error |-> FALSE]

removeClip(st, id) ==
    IF ~st.widgets[id].media_player
    THEN [st |-> st, error |-> TRUE]
    ELSE [st |-> Previews([st.widgets EXCEPT ![id].media_player = FALSE,
                                              ![id].placed = FALSE,
                                              ![id].deleteLater = TRUE],
                          SelectSeq(st.preview_widgets, LAMBDA w : w # id),
                          st.clip_count - 1),
          error |-> FALSE]

\* The remove button of the widget id is clicked.
RemoveClipAutosave ==
    /\ GuiIdle
    /\ \E id \in DOMAIN widgets :
       LET r == removeClip(ThePreviews, id)
       IN /\ preview_widgets' = r.st.preview_widgets
          /\ widgets' = r.st.widgets
          /\ clip_count' = r.st.clip_count
          /\ files' = WriteFile("project.json", dumps(ProjectData(WidgetPaths(r.st), settings)))
          /\ dialog' = IF r.error THEN "Removal Error" ELSE dialog
          /\ lastOp' = Op("removeClip", <<id>>, None, FALSE, <<>>)
    /\ UNCHANGED <<hostFrame, track, barVisible, barValue, wks, queue, imported_items, settings,
                   crashed, logVars>>

RemoveClip ==
    /\ GuiIdle
    /\ \E id \in DOMAIN widgets :
       LET r == removeClip(ThePreviews, id)
       IN /\ preview_widgets' = r.st.preview_widgets
          /\ widgets' = r.st.widgets
          /\ clip_count' = r.st.clip_count
          /\ dialog' = IF r.error THEN "Removal Error" ELSE dialog
          /\ lastOp' = Op("removeClip", <<id>>, None, FALSE, <<>>)
    /\ UNCHANGED <<hostFrame, track, barVisible, barValue, wks, queue, imported_items, settings,
                   files, crashed, logVars>>

\* DroneVideoEditor.saveProject; file_path is None when the dialog was
\* cancelled, and o = "raise" when the file cannot be opened for writing;
\* names are the answers the dialog can give.
SaveProjectAs(names) ==
    /\ GuiIdle
    /\ \E file_path \in names, o \in {"ok", "raise"} :
          /\ file_path = None => o = "ok"
          /\ files' = IF file_path # None /\ o = "ok"
                       THEN WriteFile(file_path,
                                      dumps(ProjectData(WidgetPaths(ThePreviews), settings)))
                       ELSE files
          /\ dialog' = IF o = "raise" THEN "Save Error" ELSE dialog
          /\ lastOp' = Op("saveProject", <<file_path>>, None, FALSE,
                          IF file_path = None THEN <<>>
                          ELSE <<(<<"open", 1, <<file_path, "w">>, o>>)>>)
    /\ UNCHANGED <<hostFrame, track, barVisible, barValue, wks, queue, imported_items,
                   preview_widgets, settings, crashed, clipVars, logVars>>

SaveProject == SaveProjectAs(ProjectFiles \cup {None})

\* The clip list after loadProject has cleaned up the old widgets, marked
\* them for deletion, taken them out of the grid and reset the list and
\* the counter.
Cleared(st) ==
    Previews([id \in DOMAIN st.widgets |->
                 IF \E k \in DOMAIN st.preview_widgets : st.preview_widgets[k] = id
                 THEN [st.widgets[id] EXCEPT !.media_player = FALSE, !.placed = FALSE,
                                             !.deleteLater = TRUE]
                 ELSE st.widgets[id]],
             <<>>, 0)

\* project_data.get("clips", []), as the list of the file paths.
SavedClips(project_data) ==
    [k \in DOMAIN project_data.dict.clips.list |-> project_data.dict.clips.list[k].str]

\* DroneVideoEditor.loadProject; a name that is no file on disk makes open
\* raise; names are the answers the dialog can give.
LoadProjectFrom(names) ==
    /\ GuiIdle
    /\ \E file_path \in names :
       LET found == file_path # None /\ FileNamed(file_path) # {}
           project_data == loads((CHOOSE f \in FileNamed(file_path) : TRUE).data)
           st == IF found THEN AddPreviews(Cleared(ThePreviews), SavedClips(project_data))
                 ELSE ThePreviews
       IN /\ preview_widgets' = st.preview_widgets
          /\ widgets' = st.widgets
          /\ clip_count' = st.clip_count
          /\ settings' = IF found THEN project_data.dict.settings ELSE settings
          /\ dialog' = IF file_path # None /\ ~found THEN "Load Error" ELSE dialog
          /\ lastOp' = Op("loadProject", <<file_path>>, None, FALSE,
                          IF file_path = None THEN <<>>
                          ELSE <<(<<"open", 1, <<file_path, "r">>,
                                   IF found THEN "ok" ELSE "raise">>)>>
                               \o (IF found THEN PreviewCalls(SavedClips(project_data), 0)
                                   ELSE <<>>))
    /\ UNCHANGED <<hostFrame, track, barVisible, barValue, wks, queue, imported_items, files,
                   crashed, logVars>>

LoadProject == LoadProjectFrom(ProjectFiles \cup {None})

\* The dialogs when the user keeps one project file.
OneProjectFile == {"project.json", None}

SaveOneProject == SaveProjectAs(OneProjectFile)

LoadOneProject == LoadProjectFrom(OneProjectFile)

\* The settings SettingsDialog.getSettings can return: the combo boxes and
\* check boxes as they were opened, or changed, with a preset or a custom
\* export resolution.
SettingsChoices ==
    {DEFAULT_SETTINGS,
     PyDict([DEFAULT_SETTINGS.dict EXCEPT
                !.export_resolution = PyDict([width |-> PyInt(1920), height |-> PyInt(1080)])]),
     PyDict([DEFAULT_SETTINGS.dict EXCEPT
                !.ai_processing_level = PyStr("High"),
                !.lut_selection = PyStr("Cinematic"),
                !.export_resolution = PyStr("4K"),
                !.auto_volume = PyBool(TRUE),
                !.noise_gate_eq = PyBool(TRUE),
                !.music_selection = PyStr("Track 1")])}

\* DroneVideoEditor.openSettings: the dialog is accepted with the settings s,
\* or rejected.
OpenSettings ==
    /\ GuiIdle
    /\ \E s \in SettingsChoices, accepted \in BOOLEAN :
          /\ ~accepted => s = settings
          /\ settings' = s
          /\ lastOp' = Op("openSettings", <<accepted>>, None, FALSE, <<>>)
    /\ UNCHANGED <<hostFrame, track, barVars, wks, queue, imported_items, preview_widgets,
                   files, crashed, clipVars, logVars>>

\* The files the user can drop on the drop area; the extension of a video
\* file is one of .mp4, .mov and .avi, that of notes.txt is not.
DroppedFiles == VideoFiles \cup {"notes.txt"}

Supported(file_path) == file_path \in VideoFiles

\* The loop of DroneVideoEditor.dropEvent over urls; k host calls were made
\* before.  backend.import_media([file_path]) of an existing file is the
\* host call ImportMedia, and a failure of it yields no items.
RECURSIVE DropLoop(_, _, _, _)
DropLoop(acc, urls, F, k) ==
    IF urls = <<>> THEN acc
    ELSE LET file_path == Head(urls)
             new_items == IF Out(F, "ImportMedia", k + 1) = "ok"
                          THEN NewItems(<<file_path>>) ELSE <<>>
         IN IF Supported(file_path)
            THEN DropLoop([st |-> addClipPreview(acc.st, file_path),
                           items |-> acc.items \o new_items,
                           calls |-> acc.calls
                                     \o <<Call(F, "ImportMedia", k + 1, <<(<<file_path>>)>>)>>
                                     \o PreviewCalls(<<file_path>>, k + 1),
                           dialog |-> acc.dialog],
                          Tail(urls), F, k + 2)
            ELSE DropLoop([acc EXCEPT !.dialog = "Unsupported File"], Tail(urls), F, k)

\* DroneVideoEditor.dropEvent: the files of urls are dropped on the window.
DropEvent ==
    /\ GuiIdle
    /\ \E urls \in SeqsUpTo(DroppedFiles, MaxPaths) \ {<<>>},
          F \in FaultSets(Fails("ImportMedia", 1, BothOutcomes)) :
       LET r == DropLoop([st |-> ThePreviews, items |-> imported_items, calls |-> <<>>,
                          dialog |-> dialog], urls, F, 0)
       IN /\ Len(r.st.preview_widgets) <= MaxPreviews
          /\ Len(r.items) <= MaxItems
          /\ r.calls = <<>> => F = {}
          /\ imported_items' = r.items
          /\ preview_widgets' = r.st.preview_widgets
          /\ widgets' = r.st.widgets
          /\ clip_count' = r.st.clip_count
          /\ dialog' = r.dialog
          /\ lastOp' = Op("dropEvent", <<urls>>, None, FALSE, r.calls)
    /\ UNCHANGED <<hostFrame, track, barVisible, barValue, wks, queue, settings, files,
                   crashed, logVars>>

\* The remove button of the widget id is clicked twice, and the second
\* click is delivered before the deferred deletion of the widget.
RemoveClipTwice ==
    /\ GuiIdle
    /\ \E id \in DOMAIN widgets :
       LET first == removeClip(ThePreviews, id)
           r == removeClip(first.st, id)
       IN /\ preview_widgets' = r.st.preview_widgets
          /\ widgets' = r.st.widgets
          /\ clip_count' = r.st.clip_count
          /\ dialog' = IF first.error \/ r.error THEN "Removal Error" ELSE dialog
          /\ lastOp' = Op("removeClip", <<id, id>>, None, FALSE, <<>>)
    /\ UNCHANGED <<hostFrame, track, barVisible, barValue, wks, queue, imported_items, settings,
                   files, crashed, logVars>>

\* Position of the widget id in the list pw (list.index), 0 when it is not
\* in the list and index raises.
IndexOf(pw, id) ==
    IF \E k \in DOMAIN pw : pw[k] = id
    THEN CHOOSE k \in DOMAIN pw : pw[k] = id /\ \A j \in 1..(k - 1) : pw[j] # id
    ELSE 0

\* DroneVideoEditor.reorderClips: the two widgets change places in the list,
\* every widget is taken out of the grid and the widgets of the list are
\* put back, the idx-th (from 0) in cell (idx // 4, idx % 4).
reorderClips(st, source_widget, target_widget) ==
    LET source_idx == IndexOf(st.preview_widgets, source_widget)
        target_idx == IndexOf(st.preview_widgets, target_widget)
        swapped == [st.preview_widgets EXCEPT ![source_idx] = st.preview_widgets[target_idx],
                                              ![target_idx] = st.preview_widgets[source_idx]]
    IN IF source_idx = 0 \/ target_idx = 0 THEN st
       ELSE Previews([id \in DOMAIN st.widgets |->
                         IF IndexOf(swapped, id) = 0
                         THEN [st.widgets[id] EXCEPT !.placed = FALSE]
                         ELSE [st.widgets[id] EXCEPT !.placed = TRUE,
                                                     !.cell = Cell(IndexOf(swapped, id) - 1)]],
                     swapped, st.clip_count)

\* VideoPreviewWidget.dropEvent: the preview source is dragged onto the
\* preview target.
ReorderClips ==
    /\ GuiIdle
    /\ \E source \in DOMAIN widgets, target \in DOMAIN widgets :
       LET st == reorderClips(ThePreviews, source, target)
       IN /\ source # target
          /\ preview_widgets' = st.preview_widgets
          /\ widgets' = st.widgets
          /\ clip_count' = st.clip_count
          /\ lastOp' = Op("reorderClips", <<source, target>>, None, FALSE, <<>>)
    /\ UNCHANGED <<hostFrame, track, barVars, wks, queue, imported_items, settings, files,
                   crashed, logVars>>

\* DroneVideoEditor.createTimeline: the Create Timeline button is clicked.
CreateTimelineButton ==
    /\ GuiIdle
    /\ \E F \in FaultSets(Fails("CreateTimelineFromClips", 1, BothOutcomes)) :
       LET r == IF preview_widgets = <<>> \/ imported_items = <<>>
                THEN [ret |-> None, raised |-> FALSE, calls |-> <<>>, created |-> FALSE]
                ELSE create_timeline(available_methods, hostExposes, F, FALSE, imported_items)
       IN /\ r.calls = <<>> => F = {}
          /\ dialog' = IF preview_widgets = <<>> THEN "No Clips"
                       ELSE IF r.ret = None THEN "Timeline Error"
                       ELSE dialog
          /\ hostTimeline' = (hostTimeline \/ r.created)
          /\ track' = IF r.created THEN ClipsOf(imported_items) ELSE track
          /\ lastOp' = Op("createTimeline", <<imported_items>>, r.ret, FALSE, r.calls)
    /\ UNCHANGED <<hostProject, hostExposes, ctl, available_methods, dvr, barVisible, barValue,
                   workerVars>>

NextClips ==
    \/ ImportFootage
    \/ DropEvent
    \/ RemoveClip
    \/ ReorderClips
    \/ CreateTimelineButton
    \/ Return

NextRoundTrip ==
    \/ ImportFootage
    \/ OpenSettings
    \/ SaveOneProject
    \/ LoadOneProject
    \/ Return

NextProject ==
    \/ ImportOneFile
    \/ RemoveClip
    \/ RemoveClipTwice
    \/ ReorderClips
    \/ SaveProject
    \/ LoadProject
    \/ Return

\* The window is shown on a host with a project and nothing is imported.
InitProject ==
    /\ hostProject = TRUE
    /\ hostTimeline = FALSE
    /\ hostExposes = CoreMethods
    /\ track = <<>>
    /\ ctl = "built"
    /\ available_methods = DetectAvailableMethods({}, hostProject, hostTimeline, hostExposes)
    /\ dvr = "module"
    /\ lastOp = NoOp
    /\ barVisible = FALSE
    /\ barValue = 0
    /\ dialog = None
    /\ wks = <<>>
    /\ queue = <<>>
    /\ imported_items = <<>>
    /\ preview_widgets = <<>>
    /\ crashed = FALSE
    /\ settings = DEFAULT_SETTINGS
    /\ files = {}
    /\ clip_count = 0
    /\ widgets = <<>>
    /\ last_msg = None
    /\ decided = <<>>
    /\ filtering = NotFiltering

SpecProject == InitProject /\ [][NextProject]_vars

SpecClips == InitProject /\ [][NextClips]_vars

SpecRoundTrip == InitProject /\ [][NextRoundTrip]_vars

\* ------------------------------------------------------------------------
\* config.py: the filter of the root logger
\* ------------------------------------------------------------------------
MaxRecords == 3     \* the records logged in one run

\* The messages a thread logs: detectScenes in the GUI thread, and
\* SceneDetectionWorker.run in the thread of each worker.
LogMessages(t) ==
    IF t = "gui"
    THEN {"No clips available for scene detection."}
    ELSE {"Skipping None item in scene detection",
          "Skipping timeline item with no associated MediaPoolItem."}

\* The threads inside NoDuplicateFilter.filter.
InFilter == {t \in LogThreads : filtering[t].pc # "out"}

\* NoDuplicateFilter.filter up to its comparison: thread t logs a record
\* with message msg; Logger.handle calls the filters without a lock.  The
\* record is dropped when the message equals last_msg, otherwise the thread
\* goes on to the assignment.
FilterCompare ==
    /\ Len(decided) + Cardinality(InFilter) < MaxRecords
    /\ \E t \in LogThreads \ InFilter :
       \E current_msg \in LogMessages(t) :
          filtering' = [filtering EXCEPT ![t] =
                           [msg |-> current_msg,
                            pc |-> IF current_msg = last_msg THEN "dropped" ELSE "assign"]]
    /\ UNCHANGED <<backendVars, barVars, wks, queue, imported_items, preview_widgets,
                   settings, files, crashed, clipVars, last_msg, decided>>

\* self.last_msg = current_msg; return True: the record is let through.
FilterAssign ==
    /\ \E t \in InFilter :
          /\ filtering[t].pc = "assign"
          /\ last_msg' = filtering[t].msg
          /\ decided' = Append(decided, [msg |-> filtering[t].msg, passed |-> TRUE])
          /\ filtering' = [filtering EXCEPT ![t] = NotFiltering[t]]
    /\ UNCHANGED <<backendVars, barVars, wks, queue, imported_items, preview_widgets,
                   settings, files, crashed, clipVars>>

\* return False: the logging call of the thread returns.
FilterDrop ==
    /\ \E t \in InFilter :
          /\ filtering[t].pc = "dropped"
          /\ decided' = Append(decided, [msg |-> filtering[t].msg, passed |-> FALSE])
          /\ filtering' = [filtering EXCEPT ![t] = NotFiltering[t]]
    /\ UNCHANGED <<backendVars, barVars, wks, queue, imported_items, preview_widgets,
                   settings, files, crashed, clipVars, last_msg>>

NextLogging ==
    \/ FilterCompare
    \/ FilterAssign
    \/ FilterDrop

SpecLogging == InitProject /\ [][NextLogging]_vars

\* Footage is imported while scene detection workers run: the GUI thread
\* and the worker threads take their steps in any order.
NextImportWhileDetecting ==
    \/ ImportOneFile
    \/ DetectScenes
    \/ RunBegin
    \/ RunScene(0)
    \/ RunSegments(0)
    \/ Return

SpecImportWhileDetecting == InitProject /\ [][NextImportWhileDetecting]_vars

\* ------------------------------------------------------------------------
\* Properties of the workers
\* ------------------------------------------------------------------------
\* The emissions of worker id that are still in the queue, oldest first.
EventsOf(id) == SelectSeq(queue, LAMBDA e : e.w = id)

\* C8: AIWorker.run and ExportWorker.run emit the progress values 0, 5, ...,
\* 100 in this order (21 emissions), then finished exactly once and last;
\* finished is emitted exactly once also when the loop raises.
C8_ProgressThenFinished ==
    \A id \in DOMAIN wks :
       wks[id].kind \in {"ai", "export"} =>
          LET ev == EventsOf(id)
              n == Len(ev)
          IN /\ \A k \in 1..n :
                   /\ ev[k].sig = "progress" => k <= 21 /\ ev[k].val = 5 * (k - 1)
                   /\ ev[k].sig = "finished" => k = n /\ wks[id].pc = "done"
             /\ wks[id].pc = "done" => n >= 1 /\ ev[n].sig = "finished"
             /\ wks[id].pc = "done" /\ ~wks[id].raised => n = 22

\* An AIWorker ran to the end without an exception.
C8_Witness ==
    \E id \in DOMAIN wks :
       /\ wks[id].kind = "ai"
       /\ wks[id].pc = "done"
       /\ ~wks[id].raised
       /\ Len(EventsOf(id)) = 22
       /\ EventsOf(id)[21].val = 100

\* C9: for num_exports >= 1 the k-th value BatchExportWorker.run emits is
\* floor(100 * i / (100 * num_exports)) for its step i = 5 * (k - 1), lies in
\* 0..100, the values never decrease, the first is 0, the last is 100 and
\* finished follows exactly once; for num_exports = 0 there is no progress
\* value and finished is emitted exactly once.
C9_BatchPercentages ==
    \A id \in DOMAIN wks :
       wks[id].kind = "batch" =>
          LET ev == EventsOf(id)
              n == Len(ev)
              w == wks[id]
          IN /\ \A k \in 1..n : ev[k].sig = "finished" => k = n /\ w.pc = "done"
             /\ w.pc = "done" => n >= 1 /\ ev[n].sig = "finished"
             /\ w.num = 0 => \A k \in 1..n : ev[k].sig # "progress"
             /\ w.num >= 1 /\ ~w.raised =>
                   /\ \A k \in 1..n :
                         ev[k].sig = "progress" =>
                            /\ ev[k].val = (100 * (5 * (k - 1))) \div (100 * w.num)
                            /\ ev[k].val \in 0..100
                            /\ k > 1 => ev[k - 1].val <= ev[k].val
                   /\ n >= 1 => ev[1].val = 0
                   /\ w.pc = "done" => n >= 2 /\ ev[n - 1].val = 100

IsAscending(s) == \A k \in 1..(Len(s) - 1) : s[k] <= s[k + 1]

\* s and t hold the same elements the same number of times.
SameElements(s, t) ==
    /\ Len(s) = Len(t)
    /\ \A x \in {s[k] : k \in DOMAIN s} \cup {t[k] : k \in DOMAIN t} :
          Cardinality({k \in DOMAIN s : s[k] = x}) = Cardinality({k \in DOMAIN t : t[k] = x})

\* The cut points of the item in work are [0, t1, t2, int(duration)] in
\* ascending order.
CutPointsSorted ==
    \A id \in DOMAIN wks :
       wks[id].pc = "segments" =>
          LET c == wks[id].changes
              dur == imported_items[wks[id].i].dur
          IN /\ Len(c) = 4
             /\ IsAscending(c)
             /\ IF dur.t = "num"
                THEN \E t1 \in CutChoices(dur.half, 1), t2 \in CutChoices(dur.half, 2) :
                        SameElements(c, <<0, t1, t2, IntOf(dur.half)>>)
                ELSE /\ c[1] = 0
                     /\ c[4] \in RandLo..RandHi
                     /\ {c[2], c[3]} \subseteq 2..(c[4] - 2)

\* The segments one item added to new_clips: each joins two consecutive cut
\* points at least 2 apart, they follow each other without overlap in
\* ascending order of start, and there are at most 3.
SegmentsOfItem ==
    \A id \in DOMAIN wks :
       wks[id].pc = "segments" /\ wks'[id].pc = "run" =>
          LET c == wks[id].changes
              old == Len(wks[id].new_clips)
              made == SubSeq(wks'[id].new_clips, old + 1, Len(wks'[id].new_clips))
          IN /\ SubSeq(wks'[id].new_clips, 1, old) = wks[id].new_clips
             /\ Len(made) <= 3
             /\ \A k \in 1..Len(made) :
                   /\ made[k][1] = Item(wks[id].cur, FALSE)
                   /\ \E j \in 1..3 : made[k][2] = c[j] /\ made[k][3] = c[j + 1]
                   /\ made[k][3] - made[k][2] >= 2
                   /\ k > 1 => made[k - 1][3] <= made[k][2]

\* C10: for every valid item the cut points are the ascending sort of
\* [0, t1, t2, int(duration)]; a segment is emitted only for consecutive cut
\* points with end - start >= 2, so the segments of one item do not overlap,
\* are in ascending order of start, and are at most 3.
C10_SortedCutsDisjointSegments == []CutPointsSorted /\ [][SegmentsOfItem]_vars

IsProgress(e) == e.sig = "progress"

\* C18: SceneDetectionWorker.run on a non-empty list counts every item it
\* has taken exactly once, whatever branch the item went through; the
\* progress values it emits are in 0..100 and never decrease; when the run
\* is over every item was taken and counted (also after an item that
\* failed), the last progress value is 100, and finished was emitted
\* exactly once, after every progress emission.
C18_SceneProgress ==
    \A id \in DOMAIN wks :
       LET w == wks[id]
           ev == EventsOf(id)
           prog == SelectSeq(ev, IsProgress)
       IN w.kind = "scene" /\ w.pc # "new" =>
             /\ w.total = Len(imported_items)
             /\ w.counter = IF w.pc = "segments" THEN w.i - 1 ELSE w.i
             /\ \A k \in DOMAIN prog : prog[k].val \in 0..100
             /\ \A k \in 1..(Len(prog) - 1) : prog[k].val <= prog[k + 1].val
             /\ w.pc # "done" => ev = prog
             /\ w.pc = "done" =>
                   /\ w.counter = w.total
                   /\ prog # <<>>
                   /\ prog[Len(prog)].val = 100
                   /\ Len(ev) = Len(prog) + 1
                   /\ ev[Len(ev)].sig = "finished"

\* A run over two items is over: the first failed in int(duration), the
\* second gave segments, and progress ended with 100 before finished.
C18_Witness ==
    \E id \in DOMAIN wks :
       /\ wks[id].kind = "scene"
       /\ wks[id].pc = "done"
       /\ Len(imported_items) = 2
       /\ imported_items[1].dur.t = "nan"
       /\ wks[id].new_clips # <<>>
       /\ EventsOf(id)[Len(EventsOf(id)) - 1].val = 100

\* The segments an item of positive numeric duration d added to new_clips
\* lie inside the clip.
SegmentsInsideClip ==
    \A id \in DOMAIN wks :
       wks[id].pc = "segments" /\ wks'[id].pc = "run"
          /\ imported_items[wks[id].i].dur.t = "num" =>
          LET d2 == imported_items[wks[id].i].dur.half
              old == Len(wks[id].new_clips)
          IN \A k \in (old + 1)..Len(wks'[id].new_clips) :
                LET start == wks'[id].new_clips[k][2]
                    end == wks'[id].new_clips[k][3]
                IN 0 <= start /\ start < end /\ 2 * end <= d2

\* C19: every emitted segment lies inside its clip: for every positive
\* numeric duration d, also d <= 4, 0 <= start < end <= int(d).
C19_SegmentsInsideClip == [][SegmentsInsideClip]_vars

\* An item of duration 4 gave the segment from 2 to 4.
C19_Witness ==
    \E id \in DOMAIN wks :
       /\ wks[id].pc = "run"
       /\ wks[id].i = 1
       /\ imported_items[1].dur = Duration("num", 8)
       /\ wks[id].new_clips = <<(<<Item(imported_items[1].clip, FALSE), 2, 4>>)>>

\* C11: when the Duration property is a timecode string HH:MM:SS, the
\* duration used for the cut points is HH * 3600 + MM * 60 + SS seconds; a
\* random duration is drawn only when the property gives no usable value.
C11_TimecodeDurationUsed ==
    \A id \in DOMAIN wks :
       wks[id].pc = "segments" =>
          LET dur == imported_items[wks[id].i].dur
          IN /\ dur.t = "str" =>
                   wks[id].changes[4] = dur.tc[1] * 3600 + dur.tc[2] * 60 + dur.tc[3]
             /\ dur.t = "num" /\ dur.half > 8 => wks[id].changes[4] = IntOf(dur.half)

\* One item contributed three segments.
C10_Witness ==
    \E id \in DOMAIN wks :
       /\ wks[id].kind = "scene"
       /\ wks[id].pc = "run"
       /\ wks[id].counter = 1
       /\ Len(wks[id].new_clips) = 3
       /\ wks[id].new_clips[1][3] < wks[id].new_clips[3][2]

\* ------------------------------------------------------------------------
\* Properties of the worker wiring of the main window
\* ------------------------------------------------------------------------
\* C6: once the finished signal of a worker has been handled by the main
\* window, the thread of the worker has been asked to quit (or has already
\* finished), for the AI, export, batch export and scene detection workers.
C6_ThreadAskedToQuit ==
    \A id \in DOMAIN wks : wks[id].handled => wks[id].th \in {"quit", "finished"}

\* The workers whose run() has not emitted finished yet.
Unfinished(ws) == {id \in DOMAIN ws : ws[id].pc # "done"}

AtMostOneUnfinished == Cardinality(Unfinished(wks)) <= 1

\* A step that hides the bar leaves no worker that is still running.
HiddenOnlyWhenIdle == barVisible /\ ~barVisible' => Unfinished(wks') = {}

\* While the bar stays shown its value does not decrease.
ValueNeverDecreases == barVisible /\ barVisible' => barValue' >= barValue

\* C7: at most one started and not yet finished worker is connected to the
\* progress bar at a time; the bar is hidden only when no worker is still
\* running, and its value never decreases between a show and the next hide.
C7_NoContention ==
    []AtMostOneUnfinished /\ [][HiddenOnlyWhenIdle /\ ValueNeverDecreases]_vars

\* ------------------------------------------------------------------------
\* Properties of the project files
\* ------------------------------------------------------------------------
\* C16 as stated: the application owns no persistent state; no operation
\* reachable from the GUI writes project, clip-list or settings data to
\* storage outside the host application.
C16_NoPersistentState == files = {}

\* A step that changes the files on disk.
WritesFile == files' # files

\* The step is Save Project writing the clip list and the settings to the
\* file the user named, and leaving every other file alone.
IsSaveProject ==
    /\ lastOp'.op = "saveProject"
    /\ lastOp'.arg[1] \in ProjectFiles
    /\ files' = {f \in files : f.name # lastOp'.arg[1]}
                 \cup {[name |-> lastOp'.arg[1],
                        data |-> dumps(ProjectData(WidgetPaths(ThePreviews), settings))]}

\* C16, amended: the clip list and the settings are written to storage
\* outside the host only by Save Project, which writes them to the file the
\* user chose; no other operation reachable from the GUI writes such data.
C16_OnlySaveProjectWrites == [][WritesFile => IsSaveProject]_vars

\* A project file on disk holds a list of two clips and the settings.
C16_Witness ==
    \E f \in files : /\ f.data.j = "object"
                     /\ Len(f.data.object.clips.array) = 2
                     /\ f.data.object.settings = dumps(DEFAULT_SETTINGS)

\* ------------------------------------------------------------------------
\* Properties of the clip list
\* ------------------------------------------------------------------------
\* The number of ImportMedia calls of the last operation whose list of
\* paths holds file_path.
Submissions(file_path) ==
    Cardinality({k \in DOMAIN lastOp.calls :
                    /\ lastOp.calls[k][1] = "ImportMedia"
                    /\ \E j \in DOMAIN lastOp.calls[k][3][1] :
                          lastOp.calls[k][3][1][j] = file_path})

\* The video files chosen in the last import action.
Chosen == {lastOp.arg[1][k] : k \in DOMAIN lastOp.arg[1]} \cap VideoFiles

\* C21: each file chosen in one import action (File > Import or a drop on
\* the window) is submitted to the media pool of the host exactly once.
C21_SubmittedOnce ==
    lastOp.op \in {"importFootage", "dropEvent"} =>
        \A file_path \in Chosen : Submissions(file_path) = 1

\* The file paths of the media items that createTimeline passed to the
\* host.
PassedClips == ClipsOf(lastOp.calls[1][3][2])

\* C22: the media items createTimeline passes to backend.create_timeline
\* correspond one-to-one and in the same order to the clips of
\* preview_widgets.
C22_TimelineOfPreviews ==
    (lastOp.op = "createTimeline" /\ lastOp.calls # <<>>) =>
        PassedClips = WidgetPaths(ThePreviews)

\* C23: after any sequence of addClipPreview, removeClip (a repeated
\* removal of the same widget included), reorderClips and loadProject,
\* clip_count equals len(preview_widgets).
C23_CountIsLength == clip_count = Len(preview_widgets)

\* The remove button of a preview was clicked twice, the second removal
\* failed, and one preview is left.
C23_Witness ==
    /\ lastOp.op = "removeClip"
    /\ Len(lastOp.arg) = 2
    /\ dialog = "Removal Error"
    /\ Len(preview_widgets) = 1

\* C24: no two preview widgets of preview_widgets are placed in the same
\* cell of the grid.
C24_DistinctCells ==
    \A j, k \in DOMAIN preview_widgets :
        j # k => widgets[preview_widgets[j]].cell # widgets[preview_widgets[k]].cell

\* ------------------------------------------------------------------------
\* Properties of the project round trip
\* ------------------------------------------------------------------------
\* The step is saveProject writing the file the user named.
SaveStep == lastOp'.op = "saveProject" /\ files' # files

\* The step is loadProject reading a file that exists.
LoadStep ==
    /\ lastOp'.op = "loadProject"
    /\ lastOp'.calls # <<>>
    /\ lastOp'.calls[1][4] = "ok"

\* What json.load reads from the file named in the dialog of the step.
Written == loads((CHOOSE f \in files' : f.name = lastOp'.arg[1]).data)

\* C25: saveProject followed by loadProject of the saved file is a round
\* trip.  What is read back from the file saveProject wrote is the list of
\* the file paths of the previews and the settings (a width/height record
\* as export_resolution included), and loadProject makes the previews and
\* the settings those of the file, whatever they were just before the load.
C25_RoundTrip ==
    [][/\ SaveStep => Written = ProjectData(WidgetPaths(ThePreviews), settings)
       /\ LoadStep => /\ WidgetPaths(ThePreviews') = SavedClips(Written)
                      /\ settings' = Written.dict.settings
                      /\ clip_count' = Len(SavedClips(Written))]_vars

\* A project with the clips b.mp4, a.mp4 and a custom export resolution was
\* loaded.
C25_Witness ==
    /\ lastOp.op = "loadProject"
    /\ lastOp.calls # <<>>
    /\ lastOp.calls[1][4] = "ok"
    /\ WidgetPaths(ThePreviews) = <<"b.mp4", "a.mp4">>
    /\ settings.dict.export_resolution = PyDict([width |-> PyInt(1920), height |-> PyInt(1080)])

\* ------------------------------------------------------------------------
\* Properties of scene detection while footage is imported
\* ------------------------------------------------------------------------
\* C26: the progress a running SceneDetectionWorker emits never exceeds 100
\* and the worker processes exactly the items imported_items held when
\* detectScenes started it, also when footage is imported during the run.
C26_RunOverItemsAtStart ==
    \A id \in DOMAIN wks :
       wks[id].kind = "scene" /\ wks[id].pc # "new" =>
          /\ wks[id].counter <= wks[id].total
          /\ \A k \in DOMAIN queue :
                queue[k].w = id /\ queue[k].sig = "progress" => queue[k].val <= 100

\* ------------------------------------------------------------------------
\* Properties of the log filter
\* ------------------------------------------------------------------------
\* The messages of the records of log that were let through, in order.
RECURSIVE LetThrough(_)
LetThrough(log) ==
    IF log = <<>> THEN <<>>
    ELSE (IF Head(log).passed THEN <<Head(log).msg>> ELSE <<>>) \o LetThrough(Tail(log))

\* No two adjacent records let through have the same message.
NoAdjacentDuplicates(log) ==
    \A k \in 1..(Len(LetThrough(log)) - 1) : LetThrough(log)[k] # LetThrough(log)[k + 1]

\* In this step the filter decides to drop the record of thread t.
Drops(t) == filtering[t].pc = "out" /\ filtering'[t].pc = "dropped"

Updates == lastOp'.op = "update_timeline_with_trimmed_clips"

\* The positions of the calls of host method m in the call log of the step.
UpdateCalls(m) == {k \in DOMAIN lastOp'.calls : lastOp'.calls[k][1] = m}

\* The call of method m at position k of the log: the j-th call of m.
NthCall(m, j) ==
    CHOOSE k \in UpdateCalls(m) : Cardinality({i \in UpdateCalls(m) : i <= k}) = j

\* new_clips is empty or get_current_timeline returned None.
NothingToUpdate ==
    \/ lastOp'.arg[1] = <<>>
    \/ ~hostTimeline
    \/ lastOp'.calls[1][4] # "ok"

\* False is returned and no removal or append call was made.
ReturnsFalseEmptyHanded ==
    /\ lastOp'.ret = "False"
    /\ UpdateCalls("RemoveItem") = {}
    /\ UpdateCalls("AppendToTimeline") = {}

RemoveItemAvailable == is_method_available(available_methods, "timeline.RemoveItem")

\* timeline.GetItemListInTrack("video", 1) gave the items of the track, or
\* gave None when the items are not needed.
TrackListed ==
    /\ Len(lastOp'.calls) >= 2
    /\ lastOp'.calls[2][1] = "GetItemListInTrack"
    /\ \/ lastOp'.calls[2][4] = "ok"
       \/ lastOp'.calls[2][4] = "none" /\ ~RemoveItemAvailable

\* The removal of every item of the track is requested, in track order and
\* before the first append, when RemoveItem is reported available, and no
\* removal otherwise; one append is made per tuple of new_clips, in list
\* order, of the source clip of the tuple or of its duplicate.
ClearsThenAppends ==
    /\ IF RemoveItemAvailable
       THEN /\ Cardinality(UpdateCalls("RemoveItem")) = Len(track)
            /\ \A k \in DOMAIN track :
                  lastOp'.calls[NthCall("RemoveItem", k)][3] = <<track[k]>>
            /\ \A i \in UpdateCalls("RemoveItem"), j \in UpdateCalls("AppendToTimeline") : i < j
       ELSE UpdateCalls("RemoveItem") = {}
    /\ Cardinality(UpdateCalls("AppendToTimeline")) = Len(lastOp'.arg[1])
    /\ \A j \in DOMAIN lastOp'.arg[1] :
          lastOp'.calls[NthCall("AppendToTimeline", j)][3][1].clip = lastOp'.arg[1][j][1].clip

\* C28: update_timeline_with_trimmed_clips returns False without any
\* removal or append call when new_clips is empty or there is no current
\* timeline; otherwise it requests the removal of every item of video track
\* 1 before the first AppendToTimeline call when timeline.RemoveItem is
\* reported available, removes nothing and still appends when it is not,
\* and makes one AppendToTimeline call per tuple of new_clips, in list order.
C28_ClearsThenAppends ==
    [][Updates => IF NothingToUpdate THEN ReturnsFalseEmptyHanded
                  ELSE ClearsThenAppends]_vars

\* C28, amended: the same, where the removals and the appends are made when
\* timeline.GetItemListInTrack("video", 1) gave the items of the track; when
\* that call raises, or returns None while RemoveItem is reported available,
\* False is returned without any removal or append call.
C28_ClearsThenAppendsWhenListed ==
    [][Updates => IF NothingToUpdate \/ ~TrackListed THEN ReturnsFalseEmptyHanded
                  ELSE ClearsThenAppends]_vars

\* The update removed the two items of the track and appended two clips.
C28_Witness ==
    /\ lastOp.op = "update_timeline_with_trimmed_clips"
    /\ Cardinality({k \in DOMAIN lastOp.calls : lastOp.calls[k][1] = "RemoveItem"}) = 2
    /\ Cardinality({k \in DOMAIN lastOp.calls : lastOp.calls[k][1] = "AppendToTimeline"}) = 2
    /\ lastOp.ret = "True"

====
